---- MODULE Spec2Model ----
(***************************************************************************)
(* Agent Environment Protocol (AEP): the capability configuration store    *)
(* (tools, MCP records and stubs, skills), and the interpreter session.    *)
(*                                                                         *)
(* The on-disk config root C is modelled by one variable per directory:    *)
(*   tool_files          C/tools/<name>.py                                 *)
(*   tools_requirements  C/tools/requirements.txt                          *)
(*   tools_venv          C/tools/.venv/                                    *)
(*   mcp_records         C/_mcp/<name>/config.json                         *)
(*   skill_dirs          C/skills/<name>/                                  *)
(* and one interpreter session by session_cwd and session_env.             *)
(* Every public handler method is one action; the external collaborators   *)
(* (uv, the MCP server, PATH lookup) are nondeterministic inputs.          *)
(***************************************************************************)
EXTENDS Naturals, Sequences, FiniteSets, TLC

VARIABLES tool_files, tools_requirements, tools_venv, mcp_records, last,
          skill_dirs, skill_last,
          tools_index, skills_index,
          session_cwd, session_env, exec_last,
          repl_last,
          stub_pc, stub_transport, stub_sessions, stub_call, stub_returned,
          stub_module,
          library_files,
          layout_script, layout_snapshot, layout_pos,
          validate_last,
          add_run, writers,
          sessions_cwd, env_objects, sessions_last,
          agent_dir, agent_entries, attach_last

store_vars == <<tool_files, tools_requirements, tools_venv, mcp_records, last>>
skill_vars == <<skill_dirs, skill_last>>
index_vars == <<tools_index, skills_index>>
session_vars == <<session_cwd, session_env, exec_last>>
stub_vars == <<stub_pc, stub_transport, stub_sessions, stub_call, stub_returned>>
child_vars == <<repl_last, stub_vars, stub_module>>
library_vars == <<library_files>>
layout_vars == <<layout_script, layout_snapshot, layout_pos>>
validator_vars == <<validate_last>>
peer_vars == <<sessions_cwd, env_objects, sessions_last>>
binder_vars == <<agent_dir, agent_entries, attach_last>>
scenario_vars == <<add_run, writers, peer_vars, binder_vars>>
vars == <<store_vars, skill_vars, index_vars, session_vars, child_vars,
          library_vars, layout_vars, validator_vars, scenario_vars>>

(***************************************************************************)
(* Values                                                                  *)
(***************************************************************************)

\* Python's None / a value that is present: Optional[x] is <<>> or <<x>>.
None == <<>>
Some(x) == <<x>>

\* Bound: the largest number of tools one discovery returns.
MaxTools == 1

\* Names of tools and MCP servers used as inputs ("_aux" starts with "_").
Names == {"calc", "_aux"}

\* str.startswith("_") on the names above.
StartsWithUnderscore(name) == name \in {"_aux"}

\* Source files offered to tools.add: a path, whether it exists, its stem.
Sources ==
    { [stem |-> "calc", exists |-> TRUE],
      [stem |-> "_aux", exists |-> TRUE],
      [stem |-> "calc", exists |-> FALSE] }

\* Package specifiers, in the order sorted() gives them.
SpecifierOrder == <<"numpy", "requests>=2.25">>
Specifiers == { SpecifierOrder[i] : i \in 1..Len(SpecifierOrder) }

\* Sequences over S of length at most n.
SeqUpTo(S, n) == UNION { [1..k -> S] : k \in 0..n }

\* Sequences without repetition.
Distinct(s) == \A i, j \in 1..Len(s) : i # j => s[i] # s[j]

\* Tool descriptors an MCP server may return from list_tools.
ToolCatalogue ==
    { [name |-> "echo",
       description |-> "Echo back the message",
       inputSchema |-> [properties |-> <<"message">>, required |-> {"message"}]],
      [name |-> "add",
       description |-> "Add two numbers",
       inputSchema |-> [properties |-> <<"a", "b">>, required |-> {"a"}]] }

\* What a server answers to list_tools, in server order.
ToolLists == { t \in SeqUpTo(ToolCatalogue, MaxTools) : Distinct(t) }

\* How one connection to the server ends.
DiscoveryOutcomes ==
    { [phase |-> "connect_failed", tools |-> <<>>],
      [phase |-> "initialize_failed", tools |-> <<>>],
      [phase |-> "list_tools_failed", tools |-> <<>>] }
    \cup { [phase |-> "ok", tools |-> t] : t \in ToolLists }

\* Commands passed to mcp.add in STDIO mode; shutil.which resolves some.
Commands == { None, Some(""), Some("python"), Some("nonexistent_cmd") }
Urls == { None, Some(""), Some("http://localhost:8000/mcp") }
Transports == { "stdio", "http" }

\* Outcomes of `uv venv` and `uv pip install`.
UvOutcomes == { "ok", "uv_missing", "uv_failed" }

\* A file of C/tools/ that does not exist.
NoFile == [kind |-> "absent"]
\* A directory of C/_mcp/ that does not exist.
NoRecord == [transport |-> "absent"]

\* What the last handler call was and how it ended.
NoCall ==
    [op |-> "none", name |-> "", raised |-> "none", ret |-> FALSE,
     phase |-> "none", discovered |-> <<>>]
Call(op, name, raised, ret) ==
    [op |-> op, name |-> name, raised |-> raised, ret |-> ret,
     phase |-> "none", discovered |-> <<>>]
\* A call of add or refresh that reached discovery: how far the server got and
\* the tool descriptors _fetch_tools returned.
DiscoveryCall(op, name, raised, ret, outcome, found) ==
    [op |-> op, name |-> name, raised |-> raised, ret |-> ret,
     phase |-> outcome.phase, discovered |-> found.tools]

(***************************************************************************)
(* BaseHandler: the shared manifest and environment helpers                *)
(***************************************************************************)

\* The lines a manifest may hold, in the order sorted() gives them (by code
\* point: "" < " " < "#" < "n" < "r"): the specifiers, a specifier written
\* with a leading space, a comment line and the empty line.
LineOrder == <<"", " numpy", "# pinned", "numpy", "requests>=2.25">>

\* The position of a line in sorted() order.
Rank(spec) == CHOOSE i \in 1..Len(LineOrder) : LineOrder[i] = spec

\* sorted(lines): the lines of a set in ascending order.
RECURSIVE SortLines(_)
SortLines(lines) ==
    IF lines = {} THEN <<>>
    ELSE LET least == CHOOSE x \in lines : \A y \in lines : Rank(x) <= Rank(y)
         IN  <<least>> \o SortLines(lines \ {least})

\* The elements of a sequence.
Range(s) == { s[i] : i \in 1..Len(s) }

\* A list argument that is None or empty is falsy.
Truthy(opt) == opt # None /\ opt[1] # <<>>

\* str.strip(): drop leading and trailing whitespace.
Whitespace == {" ", "\n", "\t"}
RECURSIVE Strip(_)
Strip(s) ==
    IF s = <<>> THEN s
    ELSE IF Head(s) \in Whitespace THEN Strip(Tail(s))
    ELSE IF s[Len(s)] \in Whitespace THEN Strip(SubSeq(s, 1, Len(s) - 1))
    ELSE s

\* The characters of a line: whitespace characters and "#" one by one,
\* every other run of characters as one piece.
Chars(line) ==
    CASE line = "" -> <<>>
      [] line = " numpy" -> <<" ", "numpy">>
      [] line = "# pinned" -> <<"#", " ", "pinned">>
      [] OTHER -> <<line>>
LineOf(chars) == CHOOSE line \in Range(LineOrder) : Chars(line) = chars

\* line.strip() / line.startswith("#").
StripLine(line) == LineOf(Strip(Chars(line)))
StartsWithHash(line) == Chars(line) # <<>> /\ Head(Chars(line)) = "#"

\* The `existing` set of save_requirements: every line of the file that is
\* not blank and does not start with "#", stripped.
ReadLines(lines) ==
    { StripLine(line) :
        line \in { l \in Range(lines) : StripLine(l) # "" /\ ~StartsWithHash(l) } }

\* The first half of save_requirements: the set read from the manifest.
ReadExisting(requirements_file) ==
    IF requirements_file = None THEN {} ELSE ReadLines(requirements_file[1])

\* The second half of save_requirements: existing.update(dependencies) and
\* write_text of the sorted lines.
WriteMerged(existing, dependencies) == Some(SortLines(existing \cup Range(dependencies)))

\* BaseHandler.save_requirements: union-merge the specifiers, as given, into
\* the lines read from the manifest (None: the file does not exist) and
\* write the lines back sorted; an empty list writes nothing.
SaveRequirements(requirements_file, dependencies) ==
    IF dependencies = <<>> THEN requirements_file
    ELSE WriteMerged(ReadExisting(requirements_file), dependencies)

\* BaseHandler.ensure_venv: nothing to do when the directory exists; otherwise
\* `uv venv` creates it, is not found (RuntimeError) or exits non-zero
\* (check=True lets CalledProcessError through).
EnsureVenv(venv_exists, uv) ==
    IF venv_exists THEN [venv |-> TRUE, raised |-> "none"]
    ELSE CASE uv = "ok" -> [venv |-> TRUE, raised |-> "none"]
           [] uv = "uv_missing" -> [venv |-> FALSE, raised |-> "RuntimeError"]
           [] OTHER -> [venv |-> FALSE, raised |-> "CalledProcessError"]

\* BaseHandler.install_dependencies: returns the error it raises ("none": installed).
\* A missing uv surfaces as FileNotFoundError, a failed install as RuntimeError.
InstallDependencies(dependencies, uv) ==
    IF dependencies = <<>> THEN "none"
    ELSE CASE uv = "ok" -> "none"
           [] uv = "uv_missing" -> "FileNotFoundError"
           [] OTHER -> "RuntimeError"

(***************************************************************************)
(* ToolsHandler                                                            *)
(***************************************************************************)

\* shutil.copy2(source, target): the tool file holds the source's content.
PlainTool(source) == [kind |-> "plain", content |-> source.stem]

\* ToolsHandler.add(source, name, dependencies): copy, merge manifest,
\* ensure environment, install.  Nothing checks the name.
ToolsAdd(source, name_arg, dependencies, uv_venv, uv_install) ==
    IF ~source.exists
    THEN /\ last' = Call("tools.add", "", "FileNotFoundError", FALSE)
         /\ UNCHANGED <<tool_files, tools_requirements, tools_venv, mcp_records>>
    ELSE LET name == IF name_arg = None THEN source.stem ELSE name_arg[1]
             deps == IF Truthy(dependencies) THEN dependencies[1] ELSE <<>>
             env  == EnsureVenv(tools_venv, uv_venv)
             inst == InstallDependencies(deps, uv_install)
             err  == IF env.raised # "none" THEN env.raised ELSE inst
         IN  /\ tool_files' = [tool_files EXCEPT ![name] = PlainTool(source)]
             /\ tools_requirements' = SaveRequirements(tools_requirements, deps)
             /\ tools_venv' = env.venv
             /\ last' = Call("tools.add", name, err, err = "none")
             /\ UNCHANGED mcp_records

\* ToolsHandler.add_dependencies(*packages): merge manifest, ensure
\* environment, install.
ToolsAddDependencies(packages, uv_venv, uv_install) ==
    LET env  == EnsureVenv(tools_venv, uv_venv)
        inst == InstallDependencies(packages, uv_install)
        err  == IF env.raised # "none" THEN env.raised ELSE inst
    IN  /\ tools_requirements' = SaveRequirements(tools_requirements, packages)
        /\ tools_venv' = env.venv
        /\ last' = Call("tools.add_dependencies", "", err, err = "none")
        /\ UNCHANGED <<tool_files, mcp_records>>

\* ToolsHandler.list(): the stems of C/tools/*.py that do not start with "_".
ToolsList(files) ==
    { n \in Names : files[n] # NoFile /\ ~StartsWithUnderscore(n) }

\* ToolsHandler.remove(name): unlink C/tools/<name>.py if it exists.
ToolsRemove(name) ==
    /\ tool_files' = [tool_files EXCEPT ![name] = NoFile]
    /\ last' = Call("tools.remove", name, "none", tool_files[name] # NoFile)
    /\ UNCHANGED <<tools_requirements, tools_venv, mcp_records>>

(***************************************************************************)
(* MCPHandler                                                              *)
(***************************************************************************)

\* `not command`, `not url`: None and the empty string are falsy.
Falsy(opt) == opt = None \/ opt[1] = ""

\* Mutant of ValidateTransportArgs: every argument combination is accepted.
ValidateTransportArgsAcceptAll(transport, command, url) == "none"

\* MCPHandler._validate_transport_args: the error raised, or "none".
ValidateTransportArgs(transport, command, url) ==
    CASE transport = "stdio" -> IF Falsy(command) THEN "ValueError" ELSE "none"
      [] transport = "http" -> IF Falsy(url) THEN "ValueError" ELSE "none"
      [] OTHER -> "ValueError"

\* shutil.which(command): whether PATH resolves the command.
Which(command) == command = "python"

\* MCPHandler._check_prerequisites: the error raised, or "none"
\* (shutil.which(None) is a TypeError).
CheckPrerequisites(command) ==
    IF command = None THEN "TypeError"
    ELSE IF ~Which(command[1]) THEN "PrerequisiteMissing" ELSE "none"

\* MCPServerConfig(...): the record add() builds, with the tools placeholder.
MCPServerConfig(name, transport, command, args, url) ==
    [name |-> name,
     transport |-> transport,
     command |-> IF Falsy(command) THEN None
                 ELSE Some(<<command[1]>> \o (IF args = None THEN <<>> ELSE args[1])),
     env |-> <<>>,
     url |-> url,
     headers |-> <<>>,
     tools |-> <<>>]

\* Mutant of PersistRecord: the record is not written before discovery.
PersistRecordAfterDiscovery(records, name, config) == records

\* config_dir.mkdir + config_file.write_text: C/_mcp/<name>/config.json.
PersistRecord(records, name, config) == [records EXCEPT ![name] = config]

\* Mutant of Discover: a failure of list_tools propagates like a failure to
\* initialize.
DiscoverListToolsRaises(outcome) ==
    IF outcome.phase = "ok" THEN [raised |-> FALSE, tools |-> outcome.tools]
    ELSE [raised |-> TRUE, tools |-> <<>>]

\* MCPHandler._discover and _fetch_tools: a failure to connect or to initialize
\* raises; a failure of list_tools is swallowed and yields no tools.
Discover(outcome) ==
    CASE outcome.phase \in {"connect_failed", "initialize_failed"} ->
            [raised |-> TRUE, tools |-> <<>>]
      [] outcome.phase = "list_tools_failed" -> [raised |-> FALSE, tools |-> <<>>]
      [] OTHER -> [raised |-> FALSE, tools |-> outcome.tools]

\* MCPHandler._build_connect_code: the connection parameters the stub embeds.
BuildConnectCode(transport, config) ==
    IF transport = "stdio"
    THEN [command |-> IF config.command = None THEN "" ELSE Head(config.command[1]),
          args |-> IF config.command = None THEN <<>> ELSE Tail(config.command[1]),
          env |-> config.env]
    ELSE [url |-> IF config.url = None THEN "" ELSE config.url[1],
          headers |-> config.headers]

\* MCPHandler._build_tool_methods: one function per discovered tool, in server
\* order; a parameter per schema property, with a default unless required.
BuildToolMethods(tools_info) ==
    [i \in 1..Len(tools_info) |->
        LET schema == tools_info[i].inputSchema
        IN  [name |-> tools_info[i].name,
             params |-> [k \in 1..Len(schema.properties) |->
                            [name |-> schema.properties[k],
                             has_default |-> schema.properties[k] \notin schema.required]]]]

\* Mutant of GenerateStub: the stub file is not written.
GenerateStubNoWrite(files, name, transport, config, tools_info) == files

\* MCPHandler._generate_stub: write C/tools/<name>.py with the connect code, the
\* generic call() and the per-tool functions.
GenerateStub(files, name, transport, config, tools_info) ==
    [files EXCEPT ![name] =
        [kind |-> "stub",
         transport |-> transport,
         connect |-> BuildConnectCode(transport, config),
         methods |-> BuildToolMethods(tools_info)]]

\* MCPHandler.add: validate, probe the command, persist the record, discover,
\* generate the stub.
MCPAdd(name, transport, command, args, url, outcome) ==
    LET invalid == ValidateTransportArgs(transport, command, url)
        probe   == IF transport = "stdio" THEN CheckPrerequisites(command) ELSE "none"
        config  == MCPServerConfig(name, transport, command, args, url)
        found   == Discover(outcome)
    IN  IF invalid # "none"
        THEN /\ last' = Call("mcp.add", name, invalid, FALSE)
             /\ UNCHANGED <<tool_files, tools_requirements, tools_venv, mcp_records>>
        ELSE IF probe # "none"
        THEN /\ last' = Call("mcp.add", name, probe, FALSE)
             /\ UNCHANGED <<tool_files, tools_requirements, tools_venv, mcp_records>>
        ELSE /\ mcp_records' = PersistRecord(mcp_records, name, config)
             /\ IF found.raised
                THEN /\ last' = DiscoveryCall("mcp.add", name, "DiscoveryFailed", FALSE,
                                           outcome, found)
                     /\ UNCHANGED tool_files
                ELSE /\ tool_files' =
                            GenerateStub(tool_files, name, transport, config, found.tools)
                     /\ last' = DiscoveryCall("mcp.add", name, "none", TRUE,
                                           outcome, found)
             /\ UNCHANGED <<tools_requirements, tools_venv>>

\* MCPHandler.list(): the directories of C/_mcp/ that hold a config.json.
MCPList(records) == { n \in Names : records[n] # NoRecord }

\* MCPHandler.remove: unlink the file at the stub's path if there is one,
\* remove the record directory if there is one.
MCPRemove(name) ==
    /\ tool_files' = [tool_files EXCEPT ![name] = NoFile]
    /\ mcp_records' = [mcp_records EXCEPT ![name] = NoRecord]
    /\ last' = Call("mcp.remove", name, "none",
                    tool_files[name] # NoFile \/ mcp_records[name] # NoRecord)
    /\ UNCHANGED <<tools_requirements, tools_venv>>

\* MCPHandler.refresh: rediscover from the stored record and regenerate the
\* stub; a discovery failure propagates as raised.
MCPRefresh(name, outcome) ==
    LET config == mcp_records[name]
        found  == Discover(outcome)
    IN  IF config = NoRecord
        THEN /\ last' = Call("mcp.refresh", name, "FileNotFoundError", FALSE)
             /\ UNCHANGED <<tool_files, tools_requirements, tools_venv, mcp_records>>
        ELSE IF found.raised
        THEN /\ last' = DiscoveryCall("mcp.refresh", name, "DiscoveryFailed", FALSE,
                                   outcome, found)
             /\ UNCHANGED <<tool_files, tools_requirements, tools_venv, mcp_records>>
        ELSE /\ tool_files' =
                    GenerateStub(tool_files, name, config.transport, config, found.tools)
             /\ last' = DiscoveryCall("mcp.refresh", name, "none", TRUE,
                                   outcome, found)
             /\ UNCHANGED <<tools_requirements, tools_venv, mcp_records>>

(***************************************************************************)
(* Skill names as character sequences                                      *)
(***************************************************************************)

\* Characters of skill names for which str.isalnum() holds: "FW_a" is U+FF41
\* (fullwidth a), which NFKC maps to "a"; "e_acute" is U+00E9, a lowercase
\* letter that NFKC and lower() leave alone.
Letters == {"a", "b", "A", "FW_a", "e_acute"}

\* unicodedata.normalize("NFKC", s), one character at a time.
NFKC(s) == [i \in 1..Len(s) |-> IF s[i] = "FW_a" THEN "a" ELSE s[i]]

\* str.lower().
Lower(s) == [i \in 1..Len(s) |-> IF s[i] = "A" THEN "a" ELSE s[i]]

\* "--" in name.
HasDoubleHyphen(s) == \E i \in 1..(Len(s) - 1) : s[i] = "-" /\ s[i + 1] = "-"

\* char.isalnum() or char == "-", for every character.
AllAlnumOrHyphen(s) == \A i \in 1..Len(s) : s[i] \in Letters \/ s[i] = "-"

\* Names used as directory basenames and in frontmatter.
N_ab == <<"a", "b">>
N_Ab == <<"A", "b">>
N_fw == <<"FW_a", "b">>
N_hy == <<"a", "-">>
N_padded == <<" ", "a", "b">>
N_bad == <<"A", " ", "b">>

SkillDirNames == {N_ab, N_Ab, N_fw, N_hy, N_bad}
FrontmatterNames == {None, Some(<<>>), Some(<<" ">>), Some(N_ab), Some(N_Ab),
                     Some(N_fw), Some(N_hy), Some(N_padded), Some(N_bad)}

MAX_SKILL_NAME_LENGTH == 64
MAX_DESCRIPTION_LENGTH == 1024
MAX_COMPATIBILITY_LENGTH == 500

\* A text field by its length and whether it is only whitespace.
Text(len, blank) == [len |-> len, blank |-> blank]
Descriptions == {None, Some(Text(0, TRUE)), Some(Text(3, TRUE)), Some(Text(40, FALSE)),
                 Some(Text(MAX_DESCRIPTION_LENGTH + 1, FALSE))}
Compatibilities == {None, Some(Text(20, FALSE)),
                    Some(Text(MAX_COMPATIBILITY_LENGTH + 1, FALSE))}

\* The content of a SKILL.md: text that does not parse, or its frontmatter.
ParseErrorContent == [parses |-> FALSE]
Frontmatter(name, description, compatibility, extra_fields) ==
    [parses |-> TRUE, name |-> name, description |-> description,
     compatibility |-> compatibility, extra_fields |-> extra_fields]

\* SKILL.md files offered to skills.add: every name with otherwise valid
\* fields, and one good name with each other field varied.
SkillMdContents ==
    {ParseErrorContent}
    \cup { Frontmatter(n, Some(Text(40, FALSE)), None, FALSE) : n \in FrontmatterNames }
    \cup { Frontmatter(Some(N_ab), d, None, FALSE) : d \in Descriptions }
    \cup { Frontmatter(Some(N_ab), Some(Text(40, FALSE)), c, FALSE) : c \in Compatibilities }
    \cup { Frontmatter(Some(N_ab), Some(Text(40, FALSE)), None, TRUE) }

\* The scripts of a directory source, by relative path.
ScriptFiles == { << <<"main.py">> >> }

\* Sources offered to skills.add: a path that does not exist, a single file
\* (SKILL.md or not a .md), a directory with or without a SKILL.md.
SkillSources ==
    { [kind |-> "missing"] }
    \cup { [kind |-> "file", suffix_md |-> FALSE, content |-> ParseErrorContent] }
    \cup { [kind |-> "file", suffix_md |-> TRUE, content |-> c] : c \in SkillMdContents }
    \cup { [kind |-> "dir", basename |-> b, skill_md |-> m, scripts |-> ScriptFiles] :
           b \in {N_ab, N_fw}, m \in {None} \cup { Some(c) : c \in SkillMdContents } }

\* A directory of C/skills/ that does not exist.
NoDir == [exists |-> FALSE]

NoSkillCall == [op |-> "none", source |-> "none", name |-> <<>>, raised |-> "none",
                errors |-> <<>>]
SkillCall(op, source, name, raised, errors) ==
    [op |-> op, source |-> source, name |-> name, raised |-> raised, errors |-> errors]

(***************************************************************************)
(* skills_util: parser and validator                                       *)
(***************************************************************************)

\* parser.find_skill_md: the SKILL.md of the directory, or None.
FindSkillMd(dir) == dir.skill_md

\* parser.parse_frontmatter: the metadata mapping; content.parses is FALSE when
\* it raises ParseError.
ParseFrontmatter(content) ==
    [name |-> content.name, description |-> content.description,
     compatibility |-> content.compatibility, extra_fields |-> content.extra_fields]

\* validator._validate_name.
ValidateName(name, dir_name) ==
    IF name = <<>> \/ Strip(name) = <<>>
    THEN <<"name must be a non-empty string">>
    ELSE LET n == NFKC(Strip(name))
         IN  (IF Len(n) > MAX_SKILL_NAME_LENGTH THEN <<"name exceeds limit">> ELSE <<>>)
             \o (IF n # Lower(n) THEN <<"name must be lowercase">> ELSE <<>>)
             \o (IF Head(n) = "-" \/ n[Len(n)] = "-"
                 THEN <<"name cannot start or end with a hyphen">> ELSE <<>>)
             \o (IF HasDoubleHyphen(n) THEN <<"name has consecutive hyphens">> ELSE <<>>)
             \o (IF ~AllAlnumOrHyphen(n) THEN <<"name has invalid characters">> ELSE <<>>)
             \o (IF NFKC(dir_name) # n
                 THEN <<"directory name must match skill name">> ELSE <<>>)

\* validator._validate_description.
ValidateDescription(description) ==
    IF description.len = 0 \/ description.blank
    THEN <<"description must be a non-empty string">>
    ELSE IF description.len > MAX_DESCRIPTION_LENGTH
    THEN <<"description exceeds limit">> ELSE <<>>

\* validator._validate_compatibility.
ValidateCompatibility(compatibility) ==
    IF compatibility.len > MAX_COMPATIBILITY_LENGTH
    THEN <<"compatibility exceeds limit">> ELSE <<>>

\* validator.validate_metadata: all errors, none short-circuits another field's.
ValidateMetadata(metadata, dir_name) ==
    (IF metadata.extra_fields THEN <<"unexpected fields in frontmatter">> ELSE <<>>)
    \o (IF metadata.name = None THEN <<"missing required field: name">>
        ELSE ValidateName(metadata.name[1], dir_name))
    \o (IF metadata.description = None THEN <<"missing required field: description">>
        ELSE ValidateDescription(metadata.description[1]))
    \o (IF metadata.compatibility = None THEN <<>>
        ELSE ValidateCompatibility(metadata.compatibility[1]))

\* validator.validate(skill_dir): the error list of a skill directory.
Validate(dir_name, dir) ==
    IF dir = NoDir THEN <<"path does not exist">>
    ELSE IF FindSkillMd(dir) = None THEN <<"missing required file: SKILL.md">>
    ELSE IF ~FindSkillMd(dir)[1].parses THEN <<"parse error">>
    ELSE ValidateMetadata(ParseFrontmatter(FindSkillMd(dir)[1]), dir_name)

(***************************************************************************)
(* SkillsHandler                                                           *)
(***************************************************************************)

\* Mutant of ValidateSkill: the errors of the validator are ignored.
ValidateSkillIgnoreErrors(dir_name, dir) == FALSE

\* SkillsHandler._validate_skill: whether it raises (the validator found errors).
ValidateSkill(dir_name, dir) == Validate(dir_name, dir) # <<>>

\* Mutant of RemoveTree: the directory is left in place.
RemoveTreeKeep(dirs, name) == dirs

\* shutil.rmtree(skill_dir).
RemoveTree(dirs, name) == [dirs EXCEPT ![name] = NoDir]

\* A fresh skill directory holding what was copied into it.
SkillDir(skill_md, scripts) ==
    [exists |-> TRUE, skill_md |-> skill_md, scripts |-> scripts,
     requirements |-> None, venv |-> FALSE]

\* The part of SkillsHandler.add after the copy: validate (rolling the
\* directory back on failure), merge the manifest, ensure the environment, install.
AddCopied(kind, name, copied, dependencies, uv_venv, uv_install) ==
    IF ValidateSkill(name, copied[name])
    THEN /\ skill_dirs' = RemoveTree(copied, name)
         /\ skill_last' = SkillCall("skills.add", kind, name, "SkillValidationFailed",
                                    Validate(name, copied[name]))
    ELSE LET deps == IF Truthy(dependencies) THEN dependencies[1] ELSE <<>>
             env  == EnsureVenv(copied[name].venv, uv_venv)
             inst == InstallDependencies(deps, uv_install)
             err  == IF env.raised # "none" THEN env.raised ELSE inst
         IN  /\ skill_dirs' =
                    [copied EXCEPT
                        ![name].requirements = SaveRequirements(@, deps),
                        ![name].venv = env.venv]
             /\ skill_last' = SkillCall("skills.add", kind, name, err, <<>>)

\* SkillsHandler.add(source, name, dependencies).
SkillsAdd(source, name_arg, dependencies, uv_venv, uv_install) ==
    CASE source.kind = "file" ->
            \* _skill_name_from_single_md, then the name argument must agree
            IF ~source.suffix_md
            THEN /\ skill_last' = SkillCall("skills.add", "file", <<>>, "ValueError", <<>>)
                 /\ UNCHANGED skill_dirs
            ELSE IF ~source.content.parses
            THEN /\ skill_last' = SkillCall("skills.add", "file", <<>>, "ParseError", <<>>)
                 /\ UNCHANGED skill_dirs
            ELSE LET metadata == ParseFrontmatter(source.content)
                     parsed_name == IF metadata.name = None THEN <<>>
                                    ELSE Strip(metadata.name[1])
                 IN  IF parsed_name = <<>>
                        \/ (name_arg # None /\ name_arg[1] # parsed_name)
                     THEN /\ skill_last' =
                                SkillCall("skills.add", "file", parsed_name, "ValueError", <<>>)
                          /\ UNCHANGED skill_dirs
                     ELSE AddCopied("file", parsed_name,
                                    [skill_dirs EXCEPT ![parsed_name] =
                                        SkillDir(Some(source.content), {})],
                                    dependencies, uv_venv, uv_install)
      [] source.kind = "dir" ->
            LET name == IF name_arg = None THEN source.basename ELSE name_arg[1]
            IN  AddCopied("dir", name,
                          [skill_dirs EXCEPT ![name] = SkillDir(source.skill_md, source.scripts)],
                          dependencies, uv_venv, uv_install)
      [] OTHER ->
            /\ skill_last' = SkillCall("skills.add", "none", <<>>, "FileNotFoundError", <<>>)
            /\ UNCHANGED skill_dirs

\* SkillsHandler.list(): the directories of C/skills/.
SkillsList(dirs) == { d \in SkillDirNames : dirs[d] # NoDir }

\* SkillsHandler.remove(name).
SkillsRemove(name) ==
    /\ skill_dirs' = RemoveTree(skill_dirs, name)
    /\ skill_last' = SkillCall("skills.remove", "none", name, "none", <<>>)

(***************************************************************************)
(* The interpreter session (session.py) and the executors (executor.py)    *)
(*                                                                         *)
(* A command string is a sequence of pieces: each piece is one of the      *)
(* characters the interpreter looks at (blank, newline, the two quotes,    *)
(* "=", "/") or a run of other characters.  Keywords are one piece.        *)
(***************************************************************************)

DQ == "\""
SQ == "'"

\* str.startswith / str.endswith.
StartsWith(s, prefix) ==
    Len(s) >= Len(prefix) /\ SubSeq(s, 1, Len(prefix)) = prefix
EndsWith(s, suffix) ==
    Len(s) >= Len(suffix) /\ SubSeq(s, Len(s) - Len(suffix) + 1, Len(s)) = suffix

\* ExecResult(stdout, stderr, return_code); a text is a message and its argument.
Out(text, arg) == [text |-> text, arg |-> arg]
Empty == Out("", <<>>)
ExecResult(stdout, stderr, return_code) ==
    [stdout |-> stdout, stderr |-> stderr, return_code |-> return_code]

\* A variant that tries the one-character quotes before the triple quotes.
ExtractQuotedCodeSingleFirst(s) ==
    IF StartsWith(s, <<DQ>>) /\ EndsWith(s, <<DQ>>) /\ Len(s) >= 2
    THEN Some(SubSeq(s, 2, Len(s) - 1))
    ELSE IF StartsWith(s, <<SQ>>) /\ EndsWith(s, <<SQ>>) /\ Len(s) >= 2
    THEN Some(SubSeq(s, 2, Len(s) - 1))
    ELSE None

\* AEPSession._extract_quoted_code(s): the code inside the quotes, or None.
ExtractQuotedCode(s) ==
    IF StartsWith(s, <<DQ, DQ, DQ>>) /\ EndsWith(s, <<DQ, DQ, DQ>>) /\ Len(s) >= 6
    THEN Some(SubSeq(s, 4, Len(s) - 3))
    ELSE IF StartsWith(s, <<SQ, SQ, SQ>>) /\ EndsWith(s, <<SQ, SQ, SQ>>) /\ Len(s) >= 6
    THEN Some(SubSeq(s, 4, Len(s) - 3))
    ELSE IF StartsWith(s, <<DQ>>) /\ EndsWith(s, <<DQ>>) /\ Len(s) >= 2
    THEN Some(SubSeq(s, 2, Len(s) - 1))
    ELSE IF StartsWith(s, <<SQ>>) /\ EndsWith(s, <<SQ>>) /\ Len(s) >= 2
    THEN Some(SubSeq(s, 2, Len(s) - 1))
    ELSE None

\* shlex.split(command): blanks separate tokens, a quote groups up to the
\* matching quote, an unmatched quote is a ValueError.  `token` is None
\* between tokens and Some(pieces) inside one.
RECURSIVE ShlexScan(_, _, _, _, _)
ShlexScan(s, i, quote, token, parts) ==
    IF i > Len(s)
    THEN IF quote # "" THEN [error |-> TRUE, parts |-> <<>>]
         ELSE [error |-> FALSE,
               parts |-> IF token = None THEN parts ELSE Append(parts, token[1])]
    ELSE LET c == s[i]
             sofar == IF token = None THEN <<>> ELSE token[1]
         IN  IF quote # ""
             THEN IF c = quote
                  THEN ShlexScan(s, i + 1, "", token, parts)
                  ELSE ShlexScan(s, i + 1, quote, Some(Append(sofar, c)), parts)
             ELSE IF c \in Whitespace
             THEN ShlexScan(s, i + 1, "", None,
                            IF token = None THEN parts ELSE Append(parts, token[1]))
             ELSE IF c \in {DQ, SQ}
             THEN ShlexScan(s, i + 1, c, Some(sofar), parts)
             ELSE ShlexScan(s, i + 1, "", Some(Append(sofar, c)), parts)

ShlexSplit(command) == ShlexScan(command, 1, "", None, <<>>)

\* str.split(sep, 1): the pieces before the first sep and those after it.
RECURSIVE IndexOf(_, _, _)
IndexOf(s, sep, i) ==
    IF i > Len(s) THEN 0 ELSE IF s[i] = sep THEN i ELSE IndexOf(s, sep, i + 1)
SplitOnce(s, sep) ==
    LET i == IndexOf(s, sep, 1)
    IN  IF i = 0 THEN <<s>> ELSE <<SubSeq(s, 1, i - 1), SubSeq(s, i + 1, Len(s))>>

\* str.split("/") without the empty components, as pathlib reads a path.
RECURSIVE PathParts(_)
PathParts(s) ==
    IF s = <<>> THEN <<>>
    ELSE LET sp == SplitOnce(s, "/")
             rest == IF Len(sp) = 1 THEN <<>> ELSE PathParts(sp[2])
         IN  IF sp[1] = <<>> THEN rest ELSE <<sp[1]>> \o rest

\* Path.resolve() on the components of an absolute path: "." and ".." are
\* folded, ".." at the root stays at the root.
RECURSIVE Resolve(_, _)
Resolve(done, todo) ==
    IF todo = <<>> THEN done
    ELSE IF Head(todo) = <<".">> THEN Resolve(done, Tail(todo))
    ELSE IF Head(todo) = <<"..">>
    THEN Resolve(IF done = <<>> THEN done ELSE SubSeq(done, 1, Len(done) - 1), Tail(todo))
    ELSE Resolve(Append(done, Head(todo)), Tail(todo))

\* The file system outside C: the workspace /ws with a subdirectory and a file.
Workspace == << <<"ws">> >>
Directories == { <<>>, Workspace, Workspace \o << <<"sub">> >> }
RegularFiles == { Workspace \o << <<"notes.txt">> >> }

\* How a spawned child ends: exit status 0, a non-zero exit status, still
\* running at the deadline (subprocess.TimeoutExpired), or it cannot be
\* started at all (OSError).
ChildOutcomes == {"exit0", "exit1", "timeout", "oserror"}

\* The messages the session and the executors put in stdout and stderr
\* (the source's texts, by meaning).
TIMEOUT_60 == "timeout (60s)"
TIMEOUT_300 == "timeout (300s)"

\* A variant that reports a timeout like any other failure to run the child.
RunChildTimeoutAsError(outcome, timeout_text) ==
    CASE outcome = "exit0" -> ExecResult(Out("child stdout", <<>>), Out("child stderr", <<>>), 0)
      [] outcome = "exit1" -> ExecResult(Out("child stdout", <<>>), Out("child stderr", <<>>), 1)
      [] OTHER -> ExecResult(Empty, Out("execution error", <<>>), 1)

\* The try/except around subprocess.run shared by the three executors.
RunChild(outcome, timeout_text) ==
    CASE outcome = "exit0" -> ExecResult(Out("child stdout", <<>>), Out("child stderr", <<>>), 0)
      [] outcome = "exit1" -> ExecResult(Out("child stdout", <<>>), Out("child stderr", <<>>), 1)
      [] outcome = "timeout" -> ExecResult(Empty, Out(timeout_text, <<>>), 124)
      [] OTHER -> ExecResult(Empty, Out("execution error", <<>>), 1)

\* What one exec call did: the ExecResult it returned or the exception it
\* raised, the session's cwd and env afterwards, and the child it spawned.
Returned(result, cwd, env, child) ==
    [result |-> Some(result), raised |-> "none", cwd |-> cwd, env |-> env, child |-> child]
Raised(exception, cwd, env) ==
    [result |-> None, raised |-> exception, cwd |-> cwd, env |-> env, child |-> None]
Child(kind, cwd, env_overlay, program) ==
    Some([kind |-> kind, cwd |-> cwd, env_overlay |-> env_overlay, program |-> program])

\* ToolExecutor.ensure_venv(): raises RuntimeError when C/tools/.venv is missing.
ToolExecutorEnsureVenv(venv_exists) == IF venv_exists THEN "none" ELSE "RuntimeError"

\* ToolExecutor.run(code, cwd, workspace): ensure_venv() is called before
\* the try block, so its RuntimeError leaves run().
ToolExecutorRun(code, cwd, env, outcome) ==
    IF ToolExecutorEnsureVenv(tools_venv) # "none"
    THEN Raised(ToolExecutorEnsureVenv(tools_venv), cwd, env)
    ELSE Returned(RunChild(outcome, TIMEOUT_60), cwd, env,
                  Child("tool", Some(cwd), None, code))

\* The files of an installed skill directory, by relative path.
SkillFiles(dir) ==
    (IF dir.skill_md = None THEN {} ELSE { << <<"SKILL.md">> >> }) \cup dir.scripts

\* A path below C/skills/ names an existing entry: C/skills/ itself, an
\* installed skill directory, or a file of one.
SkillsPathExists(path) ==
    \/ path = <<>>
    \/ /\ path[1] \in SkillDirNames
       /\ skill_dirs[path[1]] # NoDir
       /\ \/ Len(path) = 1
          \/ Tail(path) \in SkillFiles(skill_dirs[path[1]])
SkillsPathIsDir(path) == SkillsPathExists(path) /\ Len(path) <= 1

\* The files below the config root C, as paths of components from C:
\* C/skills/ with the installed skills, C/tools/ with calc.py when installed.
ConfigRootExists(path) ==
    \/ path = <<>>
    \/ path[1] = <<"skills">> /\ SkillsPathExists(Tail(path))
    \/ /\ path[1] = <<"tools">>
       /\ \/ Len(path) = 1
          \/ Len(path) = 2 /\ path[2] = <<"calc.py">> /\ tool_files["calc"] # NoFile
ConfigRootIsDir(path) ==
    /\ ConfigRootExists(path)
    /\ \/ Len(path) <= 1
       \/ path[1] = <<"skills">> /\ Len(path) = 2

\* How the operating system follows `base / relative`: component by
\* component, each prefix being a directory, ".." stepping to the parent
\* (not above C here).  None: some prefix is missing.
RECURSIVE ConfigWalk(_, _)
ConfigWalk(done, todo) ==
    IF todo = <<>> THEN Some(done)
    ELSE IF ~ConfigRootIsDir(done) THEN None
    ELSE IF Head(todo) = <<".">> THEN ConfigWalk(done, Tail(todo))
    ELSE IF Head(todo) = <<"..">>
    THEN ConfigWalk(IF done = <<>> THEN done ELSE SubSeq(done, 1, Len(done) - 1), Tail(todo))
    ELSE ConfigWalk(Append(done, Head(todo)), Tail(todo))

\* SkillExecutor.ensure_venv(skill_name): <skills_dir>/<skill_name>/.venv must
\* exist; skill_dir is where <skills_dir>/<skill_name> leads.
SkillExecutorEnsureVenv(skill_dir) ==
    IF /\ Len(skill_dir) = 2
       /\ skill_dir[1] = <<"skills">>
       /\ skill_dir[2] \in SkillDirNames
       /\ skill_dirs[skill_dir[2]] # NoDir
       /\ skill_dirs[skill_dir[2]].venv
    THEN "none" ELSE "RuntimeError"

\* SkillExecutor.run(script_path, args), for a relative script_path: the
\* skill is the text before the first "/", the script is
\* <skills_dir>/<script_path> as the operating system follows it; nothing
\* compares the two.  The child's cwd and program are paths from C.
SkillExecutorRun(script_path, args, cwd, env, outcome) ==
    LET skill_name == SplitOnce(script_path, "/")[1]
        skill_dir == ConfigWalk(<< <<"skills">> >>, PathParts(skill_name))
        full_script == ConfigWalk(<< <<"skills">> >>, PathParts(script_path))
    IN  IF skill_dir = None \/ ~ConfigRootIsDir(skill_dir[1])
        THEN Returned(ExecResult(Empty, Out("skill not found", skill_name), 1), cwd, env, None)
        ELSE IF full_script = None \/ ~ConfigRootExists(full_script[1])
        THEN Returned(ExecResult(Empty, Out("script not found", script_path), 1), cwd, env, None)
        ELSE IF SkillExecutorEnsureVenv(skill_dir[1]) # "none"
        THEN Returned(ExecResult(Empty, Out("venv failed", skill_name), 1), cwd, env, None)
        ELSE Returned(RunChild(outcome, TIMEOUT_300), cwd, env,
                      Child("skill", Some(skill_dir[1]), None, <<full_script[1]>> \o args))

\* AEPSession._tools_info(name): the <name>.md sidecar, else the docstring
\* of <name>.py, else an error.  C/tools/index.md is the only .md file the
\* handlers write into C/tools/.
ToolsInfo(name, cwd, env) ==
    IF name = <<"index">> /\ tools_index # None
    THEN Returned(ExecResult(Out("index.md", tools_index[1]), Empty, 0), cwd, env, None)
    ELSE IF Len(name) = 1 /\ name[1] \in Names /\ tool_files[name[1]] # NoFile
    THEN Returned(ExecResult(Out("tool documentation", name), Empty, 0), cwd, env, None)
    ELSE Returned(ExecResult(Empty, Out("tool not found", name), 1), cwd, env, None)

\* AEPSession._handle_tools(args).
HandleTools(args, cwd, env, outcome) ==
    IF args = <<>>
    THEN Returned(ExecResult(Empty, Out("Usage: tools <list|info|run> [args]", <<>>), 1),
                  cwd, env, None)
    ELSE IF args[1] = <<"list">>
    THEN IF tools_index # None
         THEN Returned(ExecResult(Out("index.md", tools_index[1]), Empty, 0), cwd, env, None)
         ELSE Returned(ExecResult(Out("no tools yet", <<>>), Empty, 0), cwd, env, None)
    ELSE IF args[1] = <<"info">>
    THEN IF Len(args) < 2
         THEN Returned(ExecResult(Empty, Out("Usage: tools info <name>", <<>>), 1),
                       cwd, env, None)
         ELSE ToolsInfo(args[2], cwd, env)
    ELSE IF args[1] = <<"run">>
    THEN IF Len(args) < 2
         THEN Returned(ExecResult(Empty, Out("Usage: tools run", <<>>), 1), cwd, env, None)
         ELSE ToolExecutorRun(args[2], cwd, env, outcome)
    ELSE Returned(ExecResult(Empty, Out("unknown subcommand", args[1]), 1), cwd, env, None)

\* AEPSession._handle_tools_run(code_arg): the text after "tools run ".
HandleToolsRun(code_arg, cwd, env, outcome) ==
    LET stripped == Strip(code_arg)
        code == ExtractQuotedCode(stripped)
    IN  IF stripped = <<>>
        THEN Returned(ExecResult(Empty, Out("Usage: tools run", <<>>), 1), cwd, env, None)
        ELSE IF code = None
        THEN Returned(ExecResult(Empty, Out("code must be quoted", <<>>), 1), cwd, env, None)
        ELSE ToolExecutorRun(code[1], cwd, env, outcome)

\* AEPSession._skills_info(name): SKILL.md (or README.md) of the skill.
SkillsInfo(name, cwd, env) ==
    LET skill_dir == Resolve(<<>>, PathParts(name))
    IN  IF ~SkillsPathIsDir(skill_dir)
        THEN Returned(ExecResult(Empty, Out("skill not found", name), 1), cwd, env, None)
        ELSE IF Len(skill_dir) = 1 /\ skill_dirs[skill_dir[1]].skill_md # None
        THEN Returned(ExecResult(Out("SKILL.md", skill_dirs[skill_dir[1]].skill_md[1]), Empty, 0),
                      cwd, env, None)
        ELSE Returned(ExecResult(Out("skill has no documentation", name), Empty, 0),
                      cwd, env, None)

\* AEPSession._handle_skills(args).
HandleSkills(args, cwd, env, outcome) ==
    IF args = <<>>
    THEN Returned(ExecResult(Empty, Out("Usage: skills <list|info|run> [args]", <<>>), 1),
                  cwd, env, None)
    ELSE IF args[1] = <<"list">>
    THEN IF skills_index # None
         THEN Returned(ExecResult(Out("index.md", skills_index[1]), Empty, 0), cwd, env, None)
         ELSE Returned(ExecResult(Out("no skills yet", <<>>), Empty, 0), cwd, env, None)
    ELSE IF args[1] = <<"info">>
    THEN IF Len(args) < 2
         THEN Returned(ExecResult(Empty, Out("Usage: skills info <name>", <<>>), 1),
                       cwd, env, None)
         ELSE SkillsInfo(args[2], cwd, env)
    ELSE IF args[1] = <<"run">>
    THEN IF Len(args) < 2
         THEN Returned(ExecResult(Empty, Out("Usage: skills run <path.py> [args]", <<>>), 1),
                       cwd, env, None)
         ELSE SkillExecutorRun(args[2], SubSeq(args, 3, Len(args)), cwd, env, outcome)
    ELSE Returned(ExecResult(Empty, Out("unknown subcommand", args[1]), 1), cwd, env, None)

\* A variant that changes directory without looking at the file system.
HandleCdUnchecked(args, cwd, env) ==
    IF args = <<>>
    THEN Returned(ExecResult(Out("cwd", Workspace), Empty, 0), Workspace, env, None)
    ELSE LET new_path == IF StartsWith(args[1], <<"/">>)
                         THEN Resolve(<<>>, PathParts(args[1]))
                         ELSE Resolve(cwd, PathParts(args[1]))
         IN  Returned(ExecResult(Out("cwd", new_path), Empty, 0), new_path, env, None)

\* AEPSession._handle_cd(args).
HandleCd(args, cwd, env) ==
    IF args = <<>>
    THEN Returned(ExecResult(Out("cwd", Workspace), Empty, 0), Workspace, env, None)
    ELSE LET target == args[1]
             new_path == IF StartsWith(target, <<"/">>)
                         THEN Resolve(<<>>, PathParts(target))
                         ELSE Resolve(cwd, PathParts(target))
         IN  IF new_path \notin Directories \cup RegularFiles
             THEN Returned(ExecResult(Empty, Out("directory does not exist", new_path), 1),
                           cwd, env, None)
             ELSE IF new_path \notin Directories
             THEN Returned(ExecResult(Empty, Out("not a directory", new_path), 1),
                           cwd, env, None)
             ELSE Returned(ExecResult(Out("cwd", new_path), Empty, 0), new_path, env, None)

\* dict[key] = value on an insertion-ordered dict kept as a sequence of
\* [key, value] records: an existing key keeps its place.
DictSet(d, key, value) ==
    IF \E i \in 1..Len(d) : d[i].key = key
    THEN [i \in 1..Len(d) |-> IF d[i].key = key THEN [key |-> key, value |-> value] ELSE d[i]]
    ELSE Append(d, [key |-> key, value |-> value])

\* {**a, **b}.
RECURSIVE DictMerge(_, _)
DictMerge(a, b) ==
    IF b = <<>> THEN a ELSE DictMerge(DictSet(a, Head(b).key, Head(b).value), Tail(b))

\* os.environ of the host process.
HostEnv == << [key |-> <<"PATH">>, value |-> <<"/", "bin">>] >>

\* The loop of AEPSession._handle_export: each K=V argument is stored as it
\* is met; the first argument without "=" ends the loop.
RECURSIVE ExportLoop(_, _)
ExportLoop(args, env) ==
    IF args = <<>> THEN [env |-> env, invalid |-> None]
    ELSE IF \E i \in 1..Len(Head(args)) : Head(args)[i] = "="
    THEN LET kv == SplitOnce(Head(args), "=")
         IN  ExportLoop(Tail(args), DictSet(env, kv[1], kv[2]))
    ELSE [env |-> env, invalid |-> Some(Head(args))]

\* AEPSession._handle_export(args).
HandleExport(args, cwd, env) ==
    IF args = <<>>
    THEN Returned(ExecResult(Out("env", env), Empty, 0), cwd, env, None)
    ELSE LET loop == ExportLoop(args, env)
         IN  IF loop.invalid # None
             THEN Returned(ExecResult(Empty, Out("invalid format", loop.invalid[1]), 1),
                           cwd, loop.env, None)
             ELSE Returned(ExecResult(Empty, Empty, 0), cwd, loop.env, None)

\* A variant in which the host's value wins on a key clash.
ShellPassthroughHostWins(command, cwd, env, outcome) ==
    Returned(RunChild(outcome, TIMEOUT_60), cwd, env,
             Child("shell", Some(cwd), Some(DictMerge(env, HostEnv)), command))

\* A variant that runs the shell in the workspace root whatever the cwd is.
ShellPassthroughInWorkspace(command, cwd, env, outcome) ==
    Returned(RunChild(outcome, TIMEOUT_60), cwd, env,
             Child("shell", Some(Workspace), Some(DictMerge(HostEnv, env)), command))

\* AEPSession._shell_passthrough(command).
ShellPassthrough(command, cwd, env, outcome) ==
    Returned(RunChild(outcome, TIMEOUT_60), cwd, env,
             Child("shell", Some(cwd), Some(DictMerge(HostEnv, env)), command))

\* AEPSession.exec(command).
Exec(command_arg, cwd, env, outcome) ==
    LET command == Strip(command_arg)
    IN  IF command = <<>>
        THEN Returned(ExecResult(Empty, Empty, 0), cwd, env, None)
        ELSE IF StartsWith(command, <<"tools", " ", "run", " ">>)
        THEN HandleToolsRun(SubSeq(command, 5, Len(command)), cwd, env, outcome)
        ELSE LET split == ShlexSplit(command)
                 parts == split.parts
             IN  IF split.error
                 THEN Returned(ExecResult(Empty, Out("command parse error", <<>>), 1),
                               cwd, env, None)
                 ELSE IF parts = <<>>
                 THEN Returned(ExecResult(Empty, Empty, 0), cwd, env, None)
                 ELSE IF parts[1] = <<"tools">>
                 THEN HandleTools(Tail(parts), cwd, env, outcome)
                 ELSE IF parts[1] = <<"skills">>
                 THEN HandleSkills(Tail(parts), cwd, env, outcome)
                 ELSE IF parts[1] = <<"cd">>
                 THEN HandleCd(Tail(parts), cwd, env)
                 ELSE IF parts[1] = <<"export">>
                 THEN HandleExport(Tail(parts), cwd, env)
                 ELSE ShellPassthrough(command, cwd, env, outcome)

\* No exec call yet / the last exec call.
NoExec ==
    [command |-> <<>>, result |-> None, raised |-> "none", child |-> None,
     child_ended |-> "none", called |-> FALSE]
ExecCall(command, r, outcome) ==
    [command |-> command, result |-> r.result, raised |-> r.raised, child |-> r.child,
     child_ended |-> IF r.child = None THEN "none" ELSE outcome, called |-> TRUE]

\* ToolsHandler.generate_index(): the listed tools in sorted order, each
\* marked when C/_mcp/<tool>/config.json exists.
NameOrder == <<"_aux", "calc">>
ToolsIndex ==
    Some(SelectSeq([i \in 1..Len(NameOrder) |->
                      [tool |-> NameOrder[i],
                       mcp |-> mcp_records[NameOrder[i]] # NoRecord]],
                   LAMBDA e : e.tool \in ToolsList(tool_files)))
ToolsGenerateIndex ==
    /\ tools_index' = ToolsIndex
    /\ UNCHANGED skills_index

\* SkillsHandler.generate_index(): the skill directories in sorted order.
SkillNameOrder == <<N_bad, N_Ab, N_hy, N_ab, N_fw>>
SkillsIndex ==
    Some(SelectSeq([i \in 1..Len(SkillNameOrder) |->
                      [path |-> SkillNameOrder[i],
                       skill_md |-> IF skill_dirs[SkillNameOrder[i]] = NoDir THEN None
                                    ELSE skill_dirs[SkillNameOrder[i]].skill_md]],
                   LAMBDA e : e.path \in SkillsList(skill_dirs)))
SkillsGenerateIndex ==
    /\ skills_index' = SkillsIndex
    /\ UNCHANGED tools_index

(***************************************************************************)
(* LibraryHandler and EnvManager.index                                     *)
(*   library_files   C/library/<name>, index.md included                   *)
(***************************************************************************)

\* The file names of C/library/, in sorted() order.
LibraryNameOrder == <<"data.csv", "index.md", "notes.md">>
LibraryNames == Range(LibraryNameOrder)

\* Source files offered to library.add.
LibrarySources ==
    { [name |-> "notes.md", exists |-> TRUE, content |-> "notes"],
      [name |-> "data.csv", exists |-> TRUE, content |-> "data"],
      [name |-> "notes.md", exists |-> FALSE, content |-> ""] }

\* LibraryHandler.add(source, name): copy the file to C/library/<name>.
LibraryAdd(source, name_arg) ==
    /\ source.exists
    /\ LET name == IF name_arg = None THEN source.name ELSE name_arg[1]
       IN  library_files' =
              [library_files EXCEPT ![name] = [kind |-> "copy", content |-> source.content]]

\* LibraryHandler.list(): the files of C/library/ other than index.md.
LibraryList(files) == { n \in LibraryNames : files[n] # NoFile /\ n # "index.md" }

\* LibraryHandler.generate_index(): the listed files in sorted order.
LibraryIndex ==
    [kind |-> "index",
     entries |-> SelectSeq(LibraryNameOrder, LAMBDA n : n \in LibraryList(library_files))]

\* EnvManager.index(): the three indexes are written.
EnvManagerIndex ==
    /\ tools_index' = ToolsIndex
    /\ skills_index' = SkillsIndex
    /\ library_files' = [library_files EXCEPT !["index.md"] = LibraryIndex]

(***************************************************************************)
(* A sequence of capability operations, executed and then executed again   *)
(*   layout_script    the operations executed so far, with their inputs    *)
(*   layout_snapshot  the on-disk state when the sequence had run once     *)
(*   layout_pos       0 while the sequence runs the first time, then the   *)
(*                    position of the next operation of the second run     *)
(***************************************************************************)

\* Bound: the largest number of operations in a sequence.
MaxOps == 2

\* A skill directory and a single SKILL.md that pass validation.
ValidSkillMd == Frontmatter(Some(N_ab), Some(Text(40, FALSE)), None, FALSE)
ValidSkillSources ==
    { [kind |-> "dir", basename |-> N_ab, skill_md |-> Some(ValidSkillMd),
       scripts |-> ScriptFiles],
      [kind |-> "file", suffix_md |-> TRUE, content |-> ValidSkillMd] }

\* Capability operations with their inputs; uv is present and succeeds.
LayoutOps ==
    { [kind |-> "tools.add", source |-> src, dependencies |-> d] :
        src \in { x \in Sources : x.exists },
        d \in {None, Some(<<"numpy">>), Some(<<" numpy">>)} }
    \cup { [kind |-> "skills.add", source |-> src, dependencies |-> d] :
             src \in ValidSkillSources, d \in {None, Some(<<"numpy">>)} }
    \cup { [kind |-> "library.add", source |-> src, dependencies |-> None] :
             src \in { x \in LibrarySources : x.exists } }
    \cup { [kind |-> "index", source |-> None, dependencies |-> None] }

\* One operation of a valid sequence: it runs and does not fail.
LayoutApply(op) ==
    CASE op.kind = "tools.add" ->
            /\ ToolsAdd(op.source, None, op.dependencies, "ok", "ok")
            /\ last'.raised = "none"
            /\ UNCHANGED <<skill_vars, index_vars, library_vars>>
      [] op.kind = "skills.add" ->
            /\ SkillsAdd(op.source, None, op.dependencies, "ok", "ok")
            /\ skill_last'.raised = "none"
            /\ UNCHANGED <<store_vars, index_vars, library_vars>>
      [] op.kind = "library.add" ->
            /\ LibraryAdd(op.source, None)
            /\ UNCHANGED <<store_vars, skill_vars, index_vars>>
      [] OTHER ->
            /\ EnvManagerIndex
            /\ UNCHANGED <<store_vars, skill_vars>>

\* The on-disk state of C; of an environment only whether it exists.
Disk ==
    [tools |-> tool_files, tools_requirements |-> tools_requirements,
     tools_venv |-> tools_venv, mcp |-> mcp_records, skills |-> skill_dirs,
     tools_index |-> tools_index, skills_index |-> skills_index,
     library |-> library_files]

\* The next operation of the first run.
DoLayoutOp ==
    /\ layout_pos = 0
    /\ Len(layout_script) < MaxOps
    /\ \E op \in LayoutOps :
          /\ LayoutApply(op)
          /\ layout_script' = Append(layout_script, op)
    /\ UNCHANGED <<layout_snapshot, layout_pos>>

\* The first run is over: the second run starts.
DoLayoutAgain ==
    /\ layout_pos = 0
    /\ layout_script # <<>>
    /\ layout_snapshot' = Some(Disk)
    /\ layout_pos' = 1
    /\ UNCHANGED <<store_vars, skill_vars, index_vars, library_vars, layout_script>>

\* The next operation of the second run, with the inputs of the first.
DoLayoutReplay ==
    /\ layout_pos \in 1..Len(layout_script)
    /\ LayoutApply(layout_script[layout_pos])
    /\ layout_pos' = layout_pos + 1
    /\ UNCHANGED <<layout_script, layout_snapshot>>

(***************************************************************************)
(* The wrapper program of ToolExecutor: REPL-style execution of a snippet  *)
(***************************************************************************)

\* Bound: the largest number of statements in a snippet.
MaxStatements == 3

\* One statement of the parsed snippet (an element of ast.parse(_code).body):
\*   is_expr  it is an ast.Expr node
\*   out      the lines it prints on stdout while it runs
\*   value    for an expression, its value: None, or Some(text of str(value))
\*   effect   "ok", or the exception it raises after printing out:
\*            "Exception" (any subclass of Exception) or "SystemExit"
\*            (sys.exit(0), which is not a subclass of Exception)
Statement(is_expr, out, value, effect) ==
    [is_expr |-> is_expr, out |-> out, value |-> value, effect |-> effect]
Statements ==
    { Statement(FALSE, <<>>, None, "ok"),              \* x = 1
      Statement(FALSE, <<"loop">>, None, "ok"),        \* for i in r: print("loop")
      Statement(FALSE, <<>>, None, "Exception"),       \* raise ValueError("e")
      Statement(TRUE, <<>>, Some("2"), "ok"),          \* 1 + 1
      Statement(TRUE, <<>>, None, "ok"),               \* None
      Statement(TRUE, <<"hi">>, None, "ok"),           \* print("hi")
      Statement(TRUE, <<>>, None, "Exception"),        \* 1 / 0
      Statement(TRUE, <<>>, None, "SystemExit") }      \* sys.exit(0)

\* The snippets: text that ast.parse rejects, or a body of statements.
Snippets ==
    { [syntax_error |-> TRUE, body |-> <<>>] }
        \cup { [syntax_error |-> FALSE, body |-> b] :
                 b \in UNION { [1..n -> Statements] : n \in 0..MaxStatements } }

\* exec(compile(mod, "<code>", "exec"), _globals): the statements run in
\* order, the values of expression statements are dropped, and the first
\* exception ends the block.
RECURSIVE ExecBlock(_, _)
ExecBlock(body, stdout) ==
    IF body = <<>>
    THEN [stdout |-> stdout, ended |-> "ok"]
    ELSE IF Head(body).effect # "ok"
         THEN [stdout |-> stdout \o Head(body).out, ended |-> Head(body).effect]
         ELSE ExecBlock(Tail(body), stdout \o Head(body).out)

\* _repl_exec with every snippet executed as one block (no echo).
ReplExecWholeBlock(tree) ==
    IF tree.syntax_error
    THEN [stdout |-> <<>>, ended |-> "SyntaxError"]
    ELSE ExecBlock(tree.body, <<>>)

\* _repl_exec(_code, _globals).
ReplExec(tree) ==
    IF tree.syntax_error
    THEN [stdout |-> <<>>, ended |-> "SyntaxError"]
    ELSE IF tree.body = <<>>
    THEN [stdout |-> <<>>, ended |-> "ok"]
    ELSE LET last_stmt == tree.body[Len(tree.body)]
         IN IF last_stmt.is_expr
            THEN LET front == ExecBlock(SubSeq(tree.body, 1, Len(tree.body) - 1), <<>>)
                 IN IF front.ended # "ok"
                    THEN front
                    ELSE IF last_stmt.effect # "ok"
                    THEN [stdout |-> front.stdout \o last_stmt.out,
                          ended |-> last_stmt.effect]
                    ELSE [stdout |-> front.stdout \o last_stmt.out
                                        \o (IF last_stmt.value # None
                                            THEN <<last_stmt.value[1]>> ELSE <<>>),
                          ended |-> "ok"]
            ELSE ExecBlock(tree.body, <<>>)

\* The end of the wrapper program: `except Exception` prints the error and
\* exits 1, the SyntaxError branch exits 1, SystemExit(0) leaves with 0.
WrapperProgram(tree) ==
    LET r == ReplExec(tree)
    IN [stdout |-> r.stdout,
        stderr |-> IF r.ended \in {"Exception", "SyntaxError"} THEN r.ended ELSE "",
        return_code |-> IF r.ended \in {"Exception", "SyntaxError"} THEN 1 ELSE 0]

\* No snippet run yet / the snippet run by the wrapper program (one
\* wrapper program runs one snippet).
NoRepl == [tree |-> [syntax_error |-> FALSE, body |-> <<>>], result |-> None, called |-> FALSE]
DoRepl ==
    /\ ~repl_last.called
    /\ \E tree \in Snippets :
          repl_last' = [tree |-> tree, result |-> Some(WrapperProgram(tree)), called |-> TRUE]
    /\ UNCHANGED <<stub_vars, stub_module>>

(***************************************************************************)
(* A generated stub at run time: one call through _call_mcp                *)
(*   stub_pc         the position of the call inside _async_call_mcp       *)
(*   stub_transport  the context of `async with _connect()` is entered     *)
(*   stub_sessions   the number of ClientSession contexts entered and not  *)
(*                   yet left                                              *)
(*   stub_call       the call in progress (or the last one)                *)
(*   stub_returned   the number of calls that have returned                *)
(***************************************************************************)

\* Bound: the number of stub calls made one after the other.
MaxCalls == 4

\* The entry points of a stub: the generic call(tool_name, **kwargs) and
\* the function generated for a tool; both return _call_mcp(...).
StubEntries == {"call", "tool"}

NoStubCall == [entry |-> "none", connected |-> FALSE, opened |-> 0, closed |-> 0,
               error |-> "none"]

\* __aexit__ of `async with ClientSession(...)` on errors only when the
\* body ended normally.
SessionExitLeakOnError(sessions, error) ==
    IF error = "none" THEN sessions - 1 ELSE sessions

\* __aexit__ of `async with ClientSession(read, write) as session`: runs
\* however the body ended.
SessionExit(sessions, error) == sessions - 1

\* call(...) or <tool>(...): _call_mcp starts asyncio.run(_async_call_mcp(...)).
StubCall ==
    /\ stub_pc = "idle"
    /\ stub_returned < MaxCalls
    /\ \E entry \in StubEntries :
          stub_call' = [NoStubCall EXCEPT !.entry = entry]
    /\ stub_pc' = "connect"
    /\ UNCHANGED <<stub_transport, stub_sessions, stub_returned>>

\* `async with _connect() as (read, write)`: the server is spawned (STDIO) or
\* the HTTP client is opened; a failure raises before any session exists.
StubConnect ==
    /\ stub_pc = "connect"
    /\ \E ok \in BOOLEAN :
          IF ok
          THEN /\ stub_transport' = TRUE
               /\ stub_call' = [stub_call EXCEPT !.connected = TRUE]
               /\ stub_pc' = "session"
          ELSE /\ stub_call' = [stub_call EXCEPT !.error = "connect"]
               /\ stub_pc' = "return"
               /\ UNCHANGED stub_transport
    /\ UNCHANGED <<stub_sessions, stub_returned>>

\* `async with ClientSession(read, write) as session`.
StubEnterSession ==
    /\ stub_pc = "session"
    /\ stub_sessions' = stub_sessions + 1
    /\ stub_call' = [stub_call EXCEPT !.opened = @ + 1]
    /\ stub_pc' = "initialize"
    /\ UNCHANGED <<stub_transport, stub_returned>>

\* `await session.initialize()`.
StubInitialize ==
    /\ stub_pc = "initialize"
    /\ \E ok \in BOOLEAN :
          IF ok
          THEN stub_pc' = "call_tool" /\ UNCHANGED stub_call
          ELSE /\ stub_call' = [stub_call EXCEPT !.error = "initialize"]
               /\ stub_pc' = "exit_session"
    /\ UNCHANGED <<stub_transport, stub_sessions, stub_returned>>

\* `result = await session.call_tool(tool_name, arguments)` and the
\* extraction of the result texts.
StubCallTool ==
    /\ stub_pc = "call_tool"
    /\ \E ok \in BOOLEAN :
          IF ok
          THEN UNCHANGED stub_call
          ELSE stub_call' = [stub_call EXCEPT !.error = "call_tool"]
    /\ stub_pc' = "exit_session"
    /\ UNCHANGED <<stub_transport, stub_sessions, stub_returned>>

\* Leaving the ClientSession context.
StubExitSession ==
    /\ stub_pc = "exit_session"
    /\ stub_sessions' = SessionExit(stub_sessions, stub_call.error)
    /\ stub_call' = [stub_call EXCEPT !.closed = @ + (stub_sessions - stub_sessions')]
    /\ stub_pc' = "exit_connect"
    /\ UNCHANGED <<stub_transport, stub_returned>>

\* Leaving the _connect() context.
StubExitConnect ==
    /\ stub_pc = "exit_connect"
    /\ stub_transport' = FALSE
    /\ stub_pc' = "return"
    /\ UNCHANGED <<stub_sessions, stub_call, stub_returned>>

\* asyncio.run returns the result or raises the error to the caller.
StubReturn ==
    /\ stub_pc = "return"
    /\ stub_pc' = "idle"
    /\ stub_returned' = stub_returned + 1
    /\ UNCHANGED <<stub_transport, stub_sessions, stub_call>>

(***************************************************************************)
(* A generated stub at load time: the functions its module defines         *)
(***************************************************************************)

\* Bound: the largest number of tools in a discovery result whose stub is
\* loaded.
MaxStubTools == 2

\* Input schemas: the properties in insertion order, and the required set.
PropertyOrders == { <<>>, <<"a">>, <<"a", "b">>, <<"b", "a">> }
InputSchemas ==
    UNION { { [properties |-> p, required |-> r] : r \in SUBSET Range(p) } :
              p \in PropertyOrders }
StubToolNames == { "echo", "add", "search" }
StubTools ==
    { [name |-> n, description |-> "", inputSchema |-> sch] :
        n \in StubToolNames, sch \in InputSchemas }

\* Discovery results: tools with distinct names, in server order.
StubToolLists ==
    { t \in SeqUpTo(StubTools, MaxStubTools) :
        \A i, j \in 1..Len(t) : i # j => t[i].name # t[j].name }

\* Python compiles `def f(params)` only when no parameter without a
\* default follows a parameter with a default.
ValidSignature(params) ==
    \A i, j \in 1..Len(params) :
        (i < j /\ params[i].has_default) => params[j].has_default

\* Loading the stub module (importlib in the wrapper program): a function
\* whose signature does not compile makes the whole module a SyntaxError and
\* nothing is defined; otherwise the module defines call(tool_name, **kwargs)
\* and the tool functions in order.
LoadStub(methods) ==
    IF \A i \in 1..Len(methods) : ValidSignature(methods[i].params)
    THEN [error |-> "none", generic_call |-> TRUE, functions |-> methods]
    ELSE [error |-> "SyntaxError", generic_call |-> FALSE, functions |-> <<>>]

NoStubModule == [tools_info |-> <<>>, module |-> None]

\* _generate_stub for a discovery result, then the load of the stub file
\* (once per wrapper program).
DoLoadStub ==
    /\ stub_module = NoStubModule
    /\ \E tools_info \in StubToolLists :
          stub_module' = [tools_info |-> tools_info,
                          module |-> Some(LoadStub(BuildToolMethods(tools_info)))]
    /\ UNCHANGED <<repl_last, stub_vars>>

(***************************************************************************)
(* The validator applied to one frontmatter name                           *)
(***************************************************************************)

\* Bound: the largest length of the short names given to the validator.
MaxNameLen == 3

\* Names given to _validate_name: every short string over these characters,
\* and a name of MAX_SKILL_NAME_LENGTH + 1 characters.
NameChars == {"a", "A", "-", " ", "e_acute"}
LongName == [i \in 1..(MAX_SKILL_NAME_LENGTH + 1) |-> "a"]
ValidatorNames == SeqUpTo(NameChars, MaxNameLen) \cup {LongName}

NoValidation == [name |-> <<>>, dir_name |-> <<>>, errors |-> <<>>, called |-> FALSE]

\* validate_metadata on a frontmatter with this name, in a directory whose
\* basename is the stripped name or "ab".
DoValidateName ==
    /\ ~validate_last.called
    /\ \E name \in ValidatorNames :
          \E dir_name \in {N_ab} \cup (IF Strip(name) = <<>> THEN {} ELSE {Strip(name)}) :
             validate_last' = [name |-> name, dir_name |-> dir_name,
                               errors |-> ValidateName(name, dir_name), called |-> TRUE]

\* Two sessions constructed on one workspace and one config.
SessionIds == {1, 2}

\* A variant in which env is one dict shared by every instance (a class
\* attribute or a mutable default).
EnvObjectOfShared(s) == 1

\* AEPSession.__init__: `self.env = {}` evaluates the dict display once per
\* construction, so each instance refers to a dict object of its own.
EnvObjectOf(s) == s

\* AEPSession.__init__: cwd starts at the workspace, env empty.
SessionInit == [cwd |-> Workspace, env |-> <<>>]
NoSessionsExec == [session |-> 0, command |-> <<>>, return_code |-> 0, raised |-> "none"]

\* The children of the protocol directory W/.agent/ that attach manages.
LinkOrder == <<"tools", "skills", "library">>
LinkNames == {"tools", "skills", "library"}
NoBinderCall == [op |-> "none", raised |-> "none", bound |-> FALSE]

\* The callers of add_dependencies that run at the same time on one store.
Writers == {1, 2}
NoWriter == [pc |-> "idle", packages |-> <<>>, existing |-> {}]

\* No add is in progress.
NoAdd ==
    [handler |-> "none", dependencies |-> <<>>, uv_venv |-> "ok", uv_install |-> "ok",
     pc |-> "idle", steps |-> <<>>, round |-> 0, first |-> None]

(***************************************************************************)
(* The configuration phase: any sequence of handler calls                  *)
(***************************************************************************)

\* EnvManager.__init__ with auto_init_tool_env=False: empty directories.
Init ==
    /\ tool_files = [n \in Names |-> NoFile]
    /\ tools_requirements = None
    /\ tools_venv = FALSE
    /\ mcp_records = [n \in Names |-> NoRecord]
    /\ last = NoCall
    /\ skill_dirs = [d \in SkillDirNames |-> NoDir]
    /\ skill_last = NoSkillCall
    /\ tools_index = None
    /\ skills_index = None
    /\ session_cwd = Workspace
    /\ session_env = <<>>
    /\ exec_last = NoExec
    /\ repl_last = NoRepl
    /\ stub_pc = "idle"
    /\ stub_transport = FALSE
    /\ stub_sessions = 0
    /\ stub_call = NoStubCall
    /\ stub_returned = 0
    /\ stub_module = NoStubModule
    /\ library_files = [n \in LibraryNames |-> NoFile]
    /\ layout_script = <<>>
    /\ layout_snapshot = None
    /\ layout_pos = 0
    /\ validate_last = NoValidation
    /\ add_run = NoAdd
    /\ writers = [w \in Writers |-> NoWriter]
    /\ sessions_cwd = [s \in SessionIds |-> SessionInit.cwd]
    /\ env_objects = [o \in { EnvObjectOf(s) : s \in SessionIds } |-> SessionInit.env]
    /\ sessions_last = NoSessionsExec
    /\ agent_dir = FALSE
    /\ agent_entries = [n \in LinkNames |-> "absent"]
    /\ attach_last = NoBinderCall

\* Arguments of mcp.add as callers pass them: a command for STDIO, a url for HTTP.
MCPAddArgs ==
    { [transport |-> "stdio", command |-> c, url |-> None] : c \in Commands }
    \cup { [transport |-> "http", command |-> None, url |-> u] : u \in Urls }

DoToolsAdd ==
    \E source \in Sources, name_arg \in {None} \cup { Some(n) : n \in Names },
       dependencies \in {None, Some(<<SpecifierOrder[1]>>)},
       uv_venv \in UvOutcomes, uv_install \in UvOutcomes :
        ToolsAdd(source, name_arg, dependencies, uv_venv, uv_install)

DoToolsRemove == \E name \in Names : ToolsRemove(name)

DoMCPAdd ==
    \E name \in Names, a \in MCPAddArgs, outcome \in DiscoveryOutcomes :
        MCPAdd(name, a.transport, a.command, Some(<<"echo_server.py">>), a.url, outcome)

DoMCPRemove == \E name \in Names : MCPRemove(name)

DoMCPRefresh == \E name \in Names, outcome \in DiscoveryOutcomes : MCPRefresh(name, outcome)

Next ==
    \/ DoToolsAdd /\ UNCHANGED <<skill_vars, index_vars, session_vars, child_vars, library_vars, layout_vars, validator_vars, scenario_vars>>
    \/ DoToolsRemove /\ UNCHANGED <<skill_vars, index_vars, session_vars, child_vars, library_vars, layout_vars, validator_vars, scenario_vars>>
    \/ DoMCPAdd /\ UNCHANGED <<skill_vars, index_vars, session_vars, child_vars, library_vars, layout_vars, validator_vars, scenario_vars>>
    \/ DoMCPRemove /\ UNCHANGED <<skill_vars, index_vars, session_vars, child_vars, library_vars, layout_vars, validator_vars, scenario_vars>>
    \/ DoMCPRefresh /\ UNCHANGED <<skill_vars, index_vars, session_vars, child_vars, library_vars, layout_vars, validator_vars, scenario_vars>>

Spec == Init /\ [][Next]_vars

(***************************************************************************)
(* Properties of the configuration store                                   *)
(***************************************************************************)

\* A generated stub for the record stored under the name.
HasStub(n) ==
    /\ tool_files[n].kind = "stub"
    /\ tool_files[n].transport = mcp_records[n].transport
    /\ tool_files[n].connect = BuildConnectCode(mcp_records[n].transport, mcp_records[n])

C4_ToolsRemoveRemovesRecord ==
    (last.op = "tools.remove" /\ last.ret)
        => /\ tool_files[last.name] = NoFile
           /\ last.name \notin ToolsList(tool_files)
           /\ last.name \notin MCPList(mcp_records)

\* C5: mcp.remove(name) on a name with no MCP record returns False and leaves
\* the whole store unchanged.
C5_RemoveUnregisteredIsNoop ==
    [][ (last'.op = "mcp.remove" /\ mcp_records[last'.name] = NoRecord)
            => /\ last'.ret = FALSE
               /\ tool_files' = tool_files
               /\ mcp_records' = mcp_records
               /\ tools_requirements' = tools_requirements
               /\ tools_venv' = tools_venv ]_vars

\* C6: after a successful tools.add or mcp.add, no name is both a plain tool
\* and a registered MCP server.
C6_ToolNamesUnique ==
    (last.op \in {"tools.add", "mcp.add"} /\ last.raised = "none")
        => \A n \in Names :
              ~(tool_files[n].kind = "plain" /\ n \in MCPList(mcp_records))

\* C9: tools.add of a name starting with "_" raises and leaves no such tool
\* file in C/tools/.
C9_UnderscoreNameRejected ==
    (last.op = "tools.add" /\ StartsWithUnderscore(last.name))
        => (last.raised # "none" /\ tool_files[last.name].kind # "plain")

\* The invariant of a persisted record: stdio has a command, http a url.
RecordWellFormed(r) ==
    /\ r.transport = "stdio" => (r.command # None /\ r.command[1] # <<>>
                                 /\ Head(r.command[1]) # "")
    /\ r.transport = "http" => (r.url # None /\ r.url[1] # "")

\* C10: an mcp.add rejected for an empty command, an empty url or an
\* unresolvable command writes neither record nor stub, and every record
\* ever persisted satisfies stdio => command non-empty, http => url non-empty.
C10_RecordsWellFormed ==
    /\ [](\A n \in Names : mcp_records[n] # NoRecord => RecordWellFormed(mcp_records[n]))
    /\ [][ (last'.op = "mcp.add"
            /\ last'.raised \in {"ValueError", "TypeError", "PrerequisiteMissing"})
              => (mcp_records' = mcp_records /\ tool_files' = tool_files) ]_vars

C10_Witness ==
    /\ last.op = "mcp.add" /\ last.raised = "PrerequisiteMissing"
    /\ mcp_records[last.name] = NoRecord
    /\ \E n \in Names : mcp_records[n] # NoRecord /\ mcp_records[n].transport = "http"

\* Dependencies and how uv behaves during one add.
SkillAddEnvironments ==
    { [dependencies |-> None, uv_venv |-> "ok", uv_install |-> "ok"],
      [dependencies |-> Some(<<SpecifierOrder[1]>>), uv_venv |-> "ok", uv_install |-> "ok"],
      [dependencies |-> Some(<<SpecifierOrder[1]>>), uv_venv |-> "uv_missing", uv_install |-> "ok"],
      [dependencies |-> Some(<<SpecifierOrder[1]>>), uv_venv |-> "ok", uv_install |-> "uv_failed"] }

DoSkillsAdd ==
    \E source \in SkillSources, name_arg \in {None, Some(N_ab)}, e \in SkillAddEnvironments :
        SkillsAdd(source, name_arg, e.dependencies, e.uv_venv, e.uv_install)

DoSkillsRemove == \E name \in SkillDirNames : SkillsRemove(name)

NextSkills ==
    \/ DoSkillsAdd /\ UNCHANGED <<store_vars, index_vars, session_vars, child_vars, library_vars, layout_vars, validator_vars, scenario_vars>>
    \/ DoSkillsRemove /\ UNCHANGED <<store_vars, index_vars, session_vars, child_vars, library_vars, layout_vars, validator_vars, scenario_vars>>

SpecSkills == Init /\ [][NextSkills]_vars

FrontmatterNameOf(dir) == ParseFrontmatter(FindSkillMd(dir)[1]).name[1]

ToolsRunCommands ==
    { <<"tools", " ", "run", " ", DQ, "1+1", DQ>>,
      <<"tools", " ", "run", " ", SQ, "1+1", SQ>>,
      <<"tools", " ", "run", " ", DQ, DQ, DQ, "x", "=", "1", "\n", "x", DQ, DQ, DQ>>,
      <<"tools", " ", "run", " ", SQ, SQ, SQ, "x", " ", "y", SQ, SQ, SQ>>,
      <<"tools", " ", "run", " ", DQ, "a", DQ, " ", DQ, "b", DQ>>,
      <<"tools", " ", "run", " ", DQ, DQ, DQ>>,
      <<"tools", " ", "run", " ", DQ, "x", SQ>>,
      <<"tools", " ", "run", " ", DQ>>,
      <<"tools", " ", "run", " ", "1+1">>,
      <<"tools", " ", "run", " ", " ">>,
      <<"tools", " ", " ", "run", " ", DQ, "1+1", DQ>> }
ToolsCommands ==
    { <<"tools">>, <<"tools", " ", "list">>, <<"tools", " ", "info">>,
      <<"tools", " ", "info", " ", "calc">>, <<"tools", " ", "frob">> }
SkillsCommands ==
    { <<"skills">>, <<"skills", " ", "list">>, <<"skills", " ", "info">>,
      <<"skills", " ", "info", " ">> \o N_ab, <<"skills", " ", "run">>,
      <<"skills", " ", "run", " ">> \o N_ab \o <<"/", "main.py">>,
      <<"skills", " ", "run", " ">> \o N_ab \o <<"/", "main.py", " ", "arg">>,
      <<"skills", " ", "run", " ">> \o N_ab \o <<"/", "nope.py">>,
      <<"skills", " ", "run", " ">> \o N_hy \o <<"/", "main.py">>,
      <<"skills", " ", "run", " ">> \o N_ab \o <<"/", "..", "/">> \o N_ab \o <<"/", "main.py">>,
      <<"skills", " ", "run", " ">> \o N_ab \o <<"/", "..", "/", "..", "/", "tools", "/", "calc.py">>,
      <<"skills", " ", "run", " ", "..", "/", "tools", "/", "calc.py">>,
      <<"skills", " ", "frob">> }
CdCommands ==
    { <<"cd">>, <<"cd", " ", "sub">>, <<"cd", " ", "..">>,
      <<"cd", " ", "/", "ws", "/", "sub">>, <<"cd", " ", "nowhere">>,
      <<"cd", " ", "notes.txt">> }
ExportCommands ==
    { <<"export">>, <<"export", " ", "K", "=", "1">>,
      <<"export", " ", "PATH", "=", "/", "x">>, <<"export", " ", "K">>,
      <<"export", " ", "K", "=", "1", " ", "J">> }
OtherCommands ==
    { <<>>, <<" ", "\n">>, <<"ls">>, <<"echo", " ", SQ, "unterminated">> }
ExecCommands ==
    ToolsRunCommands \cup ToolsCommands \cup SkillsCommands \cup CdCommands
        \cup ExportCommands \cup OtherCommands

\* session.exec(command): the session's cwd and env are what the handler left.
\* The way the child ends is an input only of the calls that spawn one.
SpawnsChild(command) == Exec(command, session_cwd, session_env, "exit0").child # None
DoExec ==
    \E command \in ExecCommands :
        \E outcome \in IF SpawnsChild(command) THEN ChildOutcomes ELSE {"exit0"} :
            LET r == Exec(command, session_cwd, session_env, outcome)
            IN  /\ session_cwd' = r.cwd
                /\ session_env' = r.env
                /\ exec_last' = ExecCall(command, r, outcome)

\* Config-phase calls made around the session: one plain tool (which
\* provisions C/tools/.venv when uv works), one skill, the two indexes.
DoProvisionTool ==
    ToolsAdd([stem |-> "calc", exists |-> TRUE], None, None, "ok", "ok")

DoProvisionSkill ==
    \E uv_venv \in {"ok", "uv_missing"} :
        SkillsAdd([kind |-> "dir", basename |-> N_ab,
                   skill_md |-> Some(Frontmatter(Some(N_ab), Some(Text(40, FALSE)), None, FALSE)),
                   scripts |-> ScriptFiles],
                  None, None, uv_venv, "ok")

NextSession ==
    \/ DoExec /\ UNCHANGED <<store_vars, skill_vars, index_vars, child_vars, library_vars, layout_vars, validator_vars, scenario_vars>>
    \/ DoProvisionTool /\ UNCHANGED <<skill_vars, index_vars, session_vars, child_vars, library_vars, layout_vars, validator_vars, scenario_vars>>
    \/ DoProvisionSkill /\ UNCHANGED <<store_vars, index_vars, session_vars, child_vars, library_vars, layout_vars, validator_vars, scenario_vars>>
    \/ ToolsGenerateIndex /\ UNCHANGED <<store_vars, skill_vars, session_vars, child_vars, library_vars, layout_vars, validator_vars, scenario_vars>>
    \/ SkillsGenerateIndex /\ UNCHANGED <<store_vars, skill_vars, session_vars, child_vars, library_vars, layout_vars, validator_vars, scenario_vars>>

SpecSession == Init /\ [][NextSession]_vars

\* C1 (as stated): exec never raises; every failure comes back as an
\* ExecResult with a non-zero return_code and the error text in stderr.
C1_ExecNeverRaises ==
    exec_last.called =>
        /\ exec_last.raised = "none"
        /\ exec_last.result # None

\* The text after "tools run " of the last command, stripped.
RunRemainder == Strip(SubSeq(Strip(exec_last.command), 5, Len(Strip(exec_last.command))))
IsTripleQuoted(s) ==
    /\ Len(s) >= 6
    /\ \E q \in {DQ, SQ} : \A i \in 1..3 : s[i] = q /\ s[Len(s) - 3 + i] = q
IsQuoted(s) == Len(s) >= 2 /\ s[1] \in {DQ, SQ} /\ s[Len(s)] = s[1]
\* The tool executor was called with `code`: it spawned the child running
\* that code, or it raised for want of the tools environment.
ToolExecutorCalledWith(code) ==
    \/ exec_last.raised = "RuntimeError"
    \/ /\ exec_last.child # None
       /\ exec_last.child[1].kind = "tool"
       /\ exec_last.child[1].program = code

\* C11: for a command starting with "tools run ", the stripped remainder is
\* not token-split: a triple-quoted block gives its inner text verbatim,
\* otherwise a quoted string gives its inner text, and any other remainder
\* returns return_code 1 and the tool executor is not called.
C11_RunRemainderIsOneArgument ==
    (exec_last.called /\ StartsWith(Strip(exec_last.command), <<"tools", " ", "run", " ">>))
        => IF IsTripleQuoted(RunRemainder)
           THEN ToolExecutorCalledWith(SubSeq(RunRemainder, 4, Len(RunRemainder) - 3))
           ELSE IF IsQuoted(RunRemainder)
           THEN ToolExecutorCalledWith(SubSeq(RunRemainder, 2, Len(RunRemainder) - 1))
           ELSE /\ exec_last.raised = "none"
                /\ exec_last.result[1].return_code = 1
                /\ exec_last.child = None

C11_Witness ==
    /\ exec_last.called
    /\ IsTripleQuoted(RunRemainder)
    /\ exec_last.child # None
    /\ exec_last.child[1].program = <<"x", "=", "1", "\n", "x">>

\* A step that is one exec call: nothing of the config changes.
ExecStep == exec_last'.called /\ UNCHANGED <<store_vars, skill_vars, index_vars, child_vars, library_vars, layout_vars, validator_vars, scenario_vars>>
\* The path a cd argument names, seen from cwd.
CdTarget(target, cwd) ==
    Resolve(IF target # <<>> /\ target[1] = "/" THEN <<>> ELSE cwd, PathParts(target))

\* C12: cd without argument sets cwd to the workspace; cd <path> sets cwd to
\* the resolved path when that is an existing directory, and otherwise
\* returns return_code 1 and leaves cwd unchanged.
C12_CdOnlyToExistingDirectory ==
    [][ (ExecStep /\ exec_last'.command \in CdCommands)
            => LET args == Tail(ShlexSplit(exec_last'.command).parts)
               IN  /\ exec_last'.raised = "none"
                   /\ IF args = <<>>
                      THEN session_cwd' = Workspace /\ exec_last'.result[1].return_code = 0
                      ELSE IF CdTarget(args[1], session_cwd) \in Directories
                      THEN /\ session_cwd' = CdTarget(args[1], session_cwd)
                           /\ exec_last'.result[1].return_code = 0
                      ELSE /\ session_cwd' = session_cwd
                           /\ exec_last'.result[1].return_code = 1 ]_vars

C12_Witness ==
    /\ exec_last.called
    /\ exec_last.command = <<"cd", " ", "notes.txt">>
    /\ exec_last.result[1].return_code = 1
    /\ session_cwd = <<>>

\* The keys of a dict and the value under a key.
DictKeys(d) == { d[i].key : i \in 1..Len(d) }
DictGet(d, key) == (CHOOSE i \in 1..Len(d) : d[i].key = key)
ValueOf(d, key) == d[DictGet(d, key)].value

\* C13: the child of a shell passthrough gets the host environment with the
\* session env laid over it (the session's value on a key clash); the
\* children of tools run and skills run get no session env.
C13_EnvOverlayForShellOnly ==
    (exec_last.called /\ exec_last.child # None)
        => LET child == exec_last.child[1]
           IN  IF child.kind = "shell"
               THEN /\ child.env_overlay # None
                    /\ DictKeys(child.env_overlay[1]) = DictKeys(HostEnv) \cup DictKeys(session_env)
                    /\ \A k \in DictKeys(session_env) :
                          ValueOf(child.env_overlay[1], k) = ValueOf(session_env, k)
                    /\ \A k \in DictKeys(HostEnv) \ DictKeys(session_env) :
                          ValueOf(child.env_overlay[1], k) = ValueOf(HostEnv, k)
               ELSE child.env_overlay = None

C13_Witness ==
    /\ exec_last.called /\ exec_last.child # None
    /\ exec_last.child[1].kind = "shell"
    /\ DictKeys(session_env) = { <<"K">>, <<"PATH">> }
    /\ ValueOf(exec_last.child[1].env_overlay[1], <<"PATH">>) = <<"/", "x">>

\* C13 for the other two executors: a tool child and a skill child spawned
\* while the session env is not empty.
C13_WitnessTool ==
    /\ exec_last.called /\ exec_last.child # None
    /\ exec_last.child[1].kind \in {"tool", "skill"}
    /\ session_env # <<>>

\* C14: when the child of a tool snippet, a shell passthrough or a skill
\* script is still running at its deadline, the call returns return_code 124
\* with the timeout sentinel in stderr; the call spawned that one child only.
C14_TimeoutReturns124 ==
    (exec_last.called /\ exec_last.child_ended = "timeout")
        => /\ exec_last.raised = "none"
           /\ exec_last.result[1].return_code = 124
           /\ exec_last.result[1].stderr.text =
                 (IF exec_last.child[1].kind = "skill" THEN TIMEOUT_300 ELSE TIMEOUT_60)
           /\ exec_last.result[1].stdout = Empty

C14_Witness ==
    /\ exec_last.called /\ exec_last.child_ended = "timeout"
    /\ exec_last.child[1].kind = "skill"
    /\ exec_last.result[1].return_code = 124

(***************************************************************************)
(* The wrapper program run on every snippet                                *)
(***************************************************************************)

NextRepl ==
    \/ DoRepl /\ UNCHANGED <<store_vars, skill_vars, index_vars, session_vars, library_vars, layout_vars, validator_vars, scenario_vars>>

SpecRepl == Init /\ [][NextRepl]_vars

\* The lines printed by the first k statements of a body.
RECURSIVE Printed(_, _)
Printed(body, k) == IF k = 0 THEN <<>> ELSE Printed(body, k - 1) \o body[k].out

\* The position of the first statement that does not end normally (0: none).
FirstStop(body) ==
    IF \E i \in 1..Len(body) : body[i].effect # "ok"
    THEN CHOOSE i \in 1..Len(body) :
            /\ body[i].effect # "ok"
            /\ \A j \in 1..(i - 1) : body[j].effect = "ok"
    ELSE 0

\* The echo law for the last snippet run, where `raising` is the set of
\* effects that count as "a statement raises".
EchoLaw(raising) ==
    (repl_last.called /\ ~repl_last.tree.syntax_error /\ repl_last.tree.body # <<>>)
        => LET body == repl_last.tree.body
               n == Len(body)
               k == FirstStop(body)
               r == repl_last.result[1]
           IN /\ (k = 0 /\ body[n].is_expr)
                    => /\ r.stdout = Printed(body, n)
                                        \o (IF body[n].value = None THEN <<>>
                                            ELSE <<body[n].value[1]>>)
                       /\ r.return_code = 0
              /\ (k = 0 /\ ~body[n].is_expr)
                    => /\ r.stdout = Printed(body, n)
                       /\ r.return_code = 0
              /\ (k # 0 /\ body[k].effect \in raising)
                    => /\ r.stdout = Printed(body, k)
                       /\ r.return_code # 0

\* C15 (as stated): REPL echo law.  When the final statement is an
\* expression E, stdout is what the preceding statements and E print followed
\* by str(value of E), unless the value is None; when the final statement is
\* not an expression, nothing is echoed; when any statement raises, nothing
\* further is echoed and the return code is not 0.
C15_ReplEchoLawAnyRaise == EchoLaw({"Exception", "SystemExit"})

\* C15 (amended): the same law, where the return code is not 0 when a
\* statement raises an error (a subclass of Exception); a statement that
\* raises SystemExit(0) ends the run with nothing further echoed and return
\* code 0.
C15_ReplEchoLaw ==
    /\ EchoLaw({"Exception"})
    /\ (repl_last.called /\ ~repl_last.tree.syntax_error
            /\ FirstStop(repl_last.tree.body) # 0
            /\ repl_last.tree.body[FirstStop(repl_last.tree.body)].effect = "SystemExit")
          => /\ repl_last.result[1].stdout
                    = Printed(repl_last.tree.body, FirstStop(repl_last.tree.body))
             /\ repl_last.result[1].return_code = 0

\* A snippet `print("hi"); 1 + 1` was run: "hi" was printed, then 2 echoed.
C15_Witness ==
    /\ repl_last.called
    /\ Len(repl_last.tree.body) = 2
    /\ repl_last.tree.body[1] = Statement(TRUE, <<"hi">>, None, "ok")
    /\ repl_last.tree.body[2] = Statement(TRUE, <<>>, Some("2"), "ok")
    /\ repl_last.result[1].stdout = <<"hi", "2">>
    /\ repl_last.result[1].return_code = 0

(***************************************************************************)
(* Calls through a generated stub                                          *)
(***************************************************************************)

NextStub ==
    \/ StubCall /\ UNCHANGED <<store_vars, skill_vars, index_vars, session_vars, repl_last, stub_module, library_vars, layout_vars, validator_vars, scenario_vars>>
    \/ StubConnect /\ UNCHANGED <<store_vars, skill_vars, index_vars, session_vars, repl_last, stub_module, library_vars, layout_vars, validator_vars, scenario_vars>>
    \/ StubEnterSession
          /\ UNCHANGED <<store_vars, skill_vars, index_vars, session_vars, repl_last, stub_module, library_vars, layout_vars, validator_vars, scenario_vars>>
    \/ StubInitialize
          /\ UNCHANGED <<store_vars, skill_vars, index_vars, session_vars, repl_last, stub_module, library_vars, layout_vars, validator_vars, scenario_vars>>
    \/ StubCallTool /\ UNCHANGED <<store_vars, skill_vars, index_vars, session_vars, repl_last, stub_module, library_vars, layout_vars, validator_vars, scenario_vars>>
    \/ StubExitSession
          /\ UNCHANGED <<store_vars, skill_vars, index_vars, session_vars, repl_last, stub_module, library_vars, layout_vars, validator_vars, scenario_vars>>
    \/ StubExitConnect
          /\ UNCHANGED <<store_vars, skill_vars, index_vars, session_vars, repl_last, stub_module, library_vars, layout_vars, validator_vars, scenario_vars>>
    \/ StubReturn /\ UNCHANGED <<store_vars, skill_vars, index_vars, session_vars, repl_last, stub_module, library_vars, layout_vars, validator_vars, scenario_vars>>

SpecStub == Init /\ [][NextStub]_vars

\* A stub call is about to return, or no call is in progress.
BetweenCalls == stub_pc \in {"idle", "return"}

\* C16 (as stated): every call through a stub opens exactly one MCP session
\* and has closed it when it returns, on the success path and on every error
\* path; no session is open between two calls.
C16_ExactlyOneSessionPerCall ==
    /\ BetweenCalls => (stub_sessions = 0 /\ ~stub_transport)
    /\ (stub_pc = "return") => (stub_call.opened = 1 /\ stub_call.closed = 1)

\* C16 (amended): every call through a stub opens at most one MCP session,
\* exactly one once its connection to the server is established and none
\* when connecting fails; every session it opened is closed when it returns,
\* on the success path and on every error path; no session and no
\* connection is open between two calls.
C16_SessionOpenedAndClosedPerCall ==
    /\ stub_sessions <= 1
    /\ BetweenCalls => (stub_sessions = 0 /\ ~stub_transport)
    /\ (stub_pc = "return")
          => /\ stub_call.opened = (IF stub_call.connected THEN 1 ELSE 0)
             /\ stub_call.closed = stub_call.opened
             /\ (stub_call.error = "connect") <=> ~stub_call.connected

\* A second call through a tool function returns after call_tool failed:
\* its one session was opened and closed.
C16_Witness ==
    /\ stub_pc = "return"
    /\ stub_returned >= 1
    /\ stub_call.entry = "tool"
    /\ stub_call.error = "call_tool"
    /\ stub_call.opened = 1
    /\ stub_call.closed = 1
    /\ stub_sessions = 0

(***************************************************************************)
(* The functions of a generated stub                                       *)
(***************************************************************************)

NextStubGen ==
    \/ DoLoadStub /\ UNCHANGED <<store_vars, skill_vars, index_vars, session_vars, library_vars, layout_vars, validator_vars, scenario_vars>>

SpecStubGen == Init /\ [][NextStubGen]_vars

\* C17: for every discovery result R the generated stub defines exactly one
\* callable per tool of R, in server order, whose parameter names are the
\* keys of the tool's inputSchema properties in insertion order and whose
\* parameters without a default are exactly the schema's required set, and it
\* defines the generic call(tool_name, **kwargs).
C17_StubFunctionsMatchDiscovery ==
    (stub_module.module # None)
        => LET R == stub_module.tools_info
               m == stub_module.module[1]
           IN /\ m.generic_call
              /\ Len(m.functions) = Len(R)
              /\ \A i \in 1..Len(m.functions) :
                    LET f == m.functions[i]
                        schema == R[i].inputSchema
                    IN /\ f.name = R[i].name
                       /\ Len(f.params) = Len(schema.properties)
                       /\ \A k \in 1..Len(f.params) :
                             f.params[k].name = schema.properties[k]
                       /\ { f.params[k].name : k \in { x \in 1..Len(f.params) :
                                                         ~f.params[x].has_default } }
                             = schema.required

(***************************************************************************)
(* The dependency manifest of the tools                                    *)
(***************************************************************************)

\* Bound: the largest number of specifiers passed to one call.
MaxDeps == 2

\* Specifier lists as callers pass them; " numpy" carries a leading space.
DependencyLists == SeqUpTo({ " numpy", "numpy", "requests>=2.25" }, MaxDeps)

DoToolsAddDependencies ==
    \E packages \in DependencyLists, uv_venv \in UvOutcomes, uv_install \in UvOutcomes :
        ToolsAddDependencies(packages, uv_venv, uv_install)

DoToolsAddWithDependencies ==
    \E source \in Sources, dependencies \in DependencyLists,
       uv_venv \in UvOutcomes, uv_install \in UvOutcomes :
        ToolsAdd(source, None, Some(dependencies), uv_venv, uv_install)

NextManifest ==
    \/ DoToolsAddDependencies
          /\ UNCHANGED <<skill_vars, index_vars, session_vars, child_vars, library_vars, layout_vars, validator_vars, scenario_vars>>
    \/ DoToolsAddWithDependencies
          /\ UNCHANGED <<skill_vars, index_vars, session_vars, child_vars, library_vars, layout_vars, validator_vars, scenario_vars>>

SpecManifest == Init /\ [][NextManifest]_vars

\* The lines of a manifest file.
ManifestLines(file) == IF file = None THEN {} ELSE Range(file[1])

\* The lines of a file are in sorted() order.
Sorted(lines) == \A i, j \in 1..Len(lines) : i < j => Rank(lines[i]) <= Rank(lines[j])

\* C18: save_manifest is a union-merge.  From a manifest that the handler
\* wrote, saving A and then B leaves the line set prior lines \cup A \cup B,
\* without duplicates and sorted; the result does not depend on the order
\* of A and B or of the specifiers within them; saving the same list again
\* changes nothing.
C18_SaveManifestUnionMerge ==
    (last.op \in {"tools.add", "tools.add_dependencies"} /\ tools_requirements # None)
      => \A A, B \in DependencyLists :
        LET saved == SaveRequirements(SaveRequirements(tools_requirements, A), B)
        IN  /\ ManifestLines(saved)
                 = ManifestLines(tools_requirements) \cup Range(A) \cup Range(B)
            /\ saved # None => (Distinct(saved[1]) /\ Sorted(saved[1]))
            /\ saved = SaveRequirements(SaveRequirements(tools_requirements, B), A)
            /\ (Range(A) = Range(B))
                  => SaveRequirements(tools_requirements, A)
                        = SaveRequirements(tools_requirements, B)
            /\ SaveRequirements(SaveRequirements(tools_requirements, A), A)
                  = SaveRequirements(tools_requirements, A)

(***************************************************************************)
(* Layout idempotence                                                      *)
(***************************************************************************)

NextLayout ==
    \/ DoLayoutOp /\ UNCHANGED <<session_vars, child_vars, validator_vars, scenario_vars>>
    \/ DoLayoutAgain /\ UNCHANGED <<session_vars, child_vars, validator_vars, scenario_vars>>
    \/ DoLayoutReplay /\ UNCHANGED <<session_vars, child_vars, validator_vars, scenario_vars>>

SpecLayout == Init /\ [][NextLayout]_vars

\* The second run of the sequence is over.
LayoutRanTwice == layout_pos = Len(layout_script) + 1

\* C19: layout idempotence.  When a valid sequence of capability operations
\* (tools.add, skills.add, library.add, index) has been executed twice with
\* identical inputs, the on-disk state of C is the state it had when the
\* sequence had been executed once (of an environment only its existence
\* is compared).
C19_LayoutIdempotent ==
    LayoutRanTwice => (Disk = layout_snapshot[1])

(***************************************************************************)
(* The rules of a skill name                                               *)
(***************************************************************************)

NextValidator ==
    \/ DoValidateName
          /\ UNCHANGED <<store_vars, skill_vars, index_vars, session_vars, child_vars,
                         library_vars, layout_vars, scenario_vars>>

SpecValidator == Init /\ [][NextValidator]_vars

\* The characters [a-z0-9-] among the characters of the names.
AsciiNameChars == {"a", "b", "-"}

\* The rules of the name, on the normalized name n and the normalized
\* directory basename d, each with the error that reports its violation.
NameRules(n, d) ==
    { [holds |-> Len(n) >= 1, error |-> "name must be a non-empty string"],
      [holds |-> Len(n) <= MAX_SKILL_NAME_LENGTH, error |-> "name exceeds limit"],
      [holds |-> n = Lower(n), error |-> "name must be lowercase"],
      [holds |-> \A i \in 1..Len(n) : n[i] \in AsciiNameChars,
       error |-> "name has invalid characters"],
      [holds |-> n = <<>> \/ (Head(n) # "-" /\ n[Len(n)] # "-"),
       error |-> "name cannot start or end with a hyphen"],
      [holds |-> ~HasDoubleHyphen(n), error |-> "name has consecutive hyphens"],
      [holds |-> n = d, error |-> "directory name must match skill name"] }

\* C20: the validator accepts a frontmatter name only if, after
\* normalization, it has 1 to 64 characters, is lowercase, consists solely
\* of characters in [a-z0-9-], has no leading, trailing or consecutive
\* hyphen and equals the normalized directory basename; every other name
\* produces at least one error, and each violated rule contributes its own
\* error to the returned list.
C20_NameAcceptedOnlyInSet ==
    validate_last.called
        => LET n == NFKC(Strip(validate_last.name))
               d == NFKC(validate_last.dir_name)
           IN  /\ (validate_last.errors = <<>>) => \A r \in NameRules(n, d) : r.holds
               /\ \A r \in NameRules(n, d) :
                     ~r.holds => r.error \in Range(validate_last.errors)

(***************************************************************************)
(* Discovery that yields no tools                                          *)
(***************************************************************************)

\* The last call was an add or a refresh whose discovery got past initialize
\* and ended with no tool descriptors.
DiscoveredNothing ==
    /\ last.op \in {"mcp.add", "mcp.refresh"}
    /\ \/ last.phase = "list_tools_failed"
       \/ last.phase = "ok" /\ last.discovered = <<>>

\* C21: when initialize succeeds and list_tools fails, or discovery returns no
\* tools, mcp.add and mcp.refresh return normally and the stub at
\* C/tools/<name>.py holds no per-tool function, only the generic call().
C21_EmptyDiscoveryStillWritesStub ==
    DiscoveredNothing =>
        /\ last.raised = "none"
        /\ last.ret
        /\ tool_files[last.name].kind = "stub"
        /\ tool_files[last.name].methods = <<>>

C21_Witness ==
    /\ last.op = "mcp.add"
    /\ last.phase = "list_tools_failed"
    /\ last.raised = "none"
    /\ tool_files[last.name].kind = "stub"
    /\ tool_files[last.name].methods = <<>>

(***************************************************************************)
(* The tools list of the persisted record                                  *)
(***************************************************************************)

\* C28: after mcp.add or mcp.refresh returns normally, the tools list stored in
\* C/_mcp/<name>/config.json equals the list of tool descriptors discovered
\* from the server.
C28_RecordToolsMatchDiscovery ==
    (last.op \in {"mcp.add", "mcp.refresh"} /\ last.raised = "none") =>
        mcp_records[last.name].tools = last.discovered

(***************************************************************************)
(* export with a malformed argument                                        *)
(***************************************************************************)

\* C27: an export command that returns a non-zero return_code leaves the
\* session env exactly as it was before the command, wherever the malformed
\* argument stands among the arguments.
C27_FailedExportKeepsEnv ==
    [][ (/\ ExecStep
         /\ exec_last'.command \in ExportCommands
         /\ exec_last'.raised = "none"
         /\ exec_last'.result[1].return_code # 0)
            => session_env' = session_env ]_vars

(***************************************************************************)
(* Program order of cd within one session                                  *)
(***************************************************************************)

\* C25: effects are in program order within a session.  A cd that returns 0
\* with directory p leaves cwd = p; a step that changes cwd is such a cd; and
\* every snippet child and shell child runs in the cwd the session had when
\* the command was issued, which is therefore the directory of the last
\* successful cd (the workspace before any).
C25_CwdInProgramOrder ==
    [][ ExecStep =>
          /\ (exec_last'.command \in CdCommands /\ exec_last'.raised = "none"
                  /\ exec_last'.result[1].return_code = 0)
                => session_cwd' = exec_last'.result[1].stdout.arg
          /\ session_cwd' # session_cwd
                => /\ exec_last'.command \in CdCommands
                   /\ exec_last'.raised = "none"
                   /\ exec_last'.result[1].return_code = 0
          /\ (exec_last'.child # None /\ exec_last'.child[1].kind \in {"tool", "shell"})
                => /\ exec_last'.child[1].cwd = Some(session_cwd)
                   /\ session_cwd' = session_cwd ]_vars

C25_Witness ==
    /\ exec_last.called
    /\ exec_last.child # None
    /\ exec_last.child[1].kind = "shell"
    /\ session_cwd = Workspace \o << <<"sub">> >>
    /\ exec_last.child[1].cwd = Some(session_cwd)

(***************************************************************************)
(* A failed skills.add and the skills installed before it                  *)
(***************************************************************************)

\* C26: a skills.add call that fails leaves every skill that was installed
\* before the call installed and unchanged, the skill of the same name as the
\* one being added included.
C26_FailedAddKeepsInstalledSkills ==
    [][ (/\ UNCHANGED <<store_vars, index_vars, session_vars, child_vars,
                        library_vars, layout_vars, validator_vars, scenario_vars>>
         /\ skill_last'.op = "skills.add"
         /\ skill_last'.raised # "none")
            => \A n \in SkillDirNames :
                  skill_dirs[n] # NoDir => skill_dirs'[n] = skill_dirs[n] ]_vars

(***************************************************************************)
(* One add with dependencies, statement by statement, and its repetition   *)
(***************************************************************************)

\* The manifest the handler of the running add merges into:
\* C/tools/requirements.txt or C/skills/<name>/requirements.txt.
AddManifest ==
    IF add_run.handler = "tools" THEN tools_requirements
    ELSE IF skill_dirs[N_ab] = NoDir THEN None ELSE skill_dirs[N_ab].requirements

\* The source of the running add is in place in the config root.
AddSourceCopied ==
    IF add_run.handler = "tools" THEN tool_files["calc"] = PlainTool([stem |-> "calc", exists |-> TRUE])
    ELSE skill_dirs[N_ab] # NoDir /\ skill_dirs[N_ab].skill_md = Some(ValidSkillMd)

AddFinished == add_run.pc \in {"raised", "returned"}

\* tools.add(source, dependencies=d) or skills.add(source, dependencies=d) is
\* called with a non-empty d; uv behaves as chosen for this call.
AddBegin ==
    /\ add_run.pc = "idle" \/ (AddFinished /\ add_run.round = 2)
    /\ \E handler \in {"tools", "skills"}, d \in DependencyLists \ {<<>>},
          uv_venv \in UvOutcomes, uv_install \in UvOutcomes :
            add_run' = [handler |-> handler, dependencies |-> d, uv_venv |-> uv_venv,
                        uv_install |-> uv_install, pc |-> "start", steps |-> <<>>,
                        round |-> 1, first |-> None]
    /\ UNCHANGED <<store_vars, skill_vars, writers>>

\* The same add is called again after it raised or returned.
AddRepeat ==
    /\ AddFinished /\ add_run.round = 1
    /\ \E uv_venv \in UvOutcomes, uv_install \in UvOutcomes :
            add_run' = [add_run EXCEPT !.uv_venv = uv_venv, !.uv_install = uv_install,
                                       !.pc = "start", !.steps = <<>>, !.round = 2,
                                       !.first = AddManifest]
    /\ UNCHANGED <<store_vars, skill_vars, writers>>

\* Step 1: shutil.copy2 of the tool file; for a skill, rmtree of an existing
\* directory, copytree and the validation of the copy (the source is valid).
AddCopy ==
    /\ add_run.pc = "start"
    /\ IF add_run.handler = "tools"
       THEN /\ tool_files' = [tool_files EXCEPT
                                 !["calc"] = PlainTool([stem |-> "calc", exists |-> TRUE])]
            /\ UNCHANGED skill_dirs
       ELSE /\ skill_dirs' = [skill_dirs EXCEPT
                                 ![N_ab] = SkillDir(Some(ValidSkillMd), ScriptFiles)]
            /\ UNCHANGED tool_files
    /\ add_run' = [add_run EXCEPT !.pc = "copied", !.steps = Append(@, "copy")]
    /\ UNCHANGED <<tools_requirements, tools_venv, mcp_records, last, skill_last, writers>>

\* Step 2: save_requirements merges the dependencies into the manifest.
AddMerge ==
    /\ add_run.pc = "copied"
    /\ IF add_run.handler = "tools"
       THEN /\ tools_requirements' = SaveRequirements(tools_requirements, add_run.dependencies)
            /\ UNCHANGED skill_dirs
       ELSE /\ skill_dirs' = [skill_dirs EXCEPT
                 ![N_ab].requirements = SaveRequirements(@, add_run.dependencies)]
            /\ UNCHANGED tools_requirements
    /\ add_run' = [add_run EXCEPT !.pc = "merged", !.steps = Append(@, "merge")]
    /\ UNCHANGED <<tool_files, tools_venv, mcp_records, last, skill_last, writers>>

\* Step 3: ensure_venv creates the environment or raises.
AddEnsure ==
    /\ add_run.pc = "merged"
    /\ LET exists == IF add_run.handler = "tools" THEN tools_venv ELSE skill_dirs[N_ab].venv
           env == EnsureVenv(exists, add_run.uv_venv)
       IN  /\ IF add_run.handler = "tools"
              THEN tools_venv' = env.venv /\ UNCHANGED skill_dirs
              ELSE /\ skill_dirs' = [skill_dirs EXCEPT ![N_ab].venv = env.venv]
                   /\ UNCHANGED tools_venv
           /\ add_run' = [add_run EXCEPT
                             !.pc = IF env.raised = "none" THEN "ensured" ELSE "raised",
                             !.steps = Append(@, "ensure")]
    /\ UNCHANGED <<tool_files, tools_requirements, mcp_records, last, skill_last, writers>>

\* Step 4: install_dependencies installs into the environment or raises.
AddInstall ==
    /\ add_run.pc = "ensured"
    /\ add_run' = [add_run EXCEPT
                     !.pc = IF InstallDependencies(add_run.dependencies,
                                                   add_run.uv_install) = "none"
                            THEN "returned" ELSE "raised",
                     !.steps = Append(@, "install")]
    /\ UNCHANGED <<store_vars, skill_vars, writers>>

NextAdd ==
    \/ AddBegin /\ UNCHANGED <<index_vars, session_vars, child_vars, library_vars, layout_vars, validator_vars, peer_vars, binder_vars>>
    \/ AddRepeat /\ UNCHANGED <<index_vars, session_vars, child_vars, library_vars, layout_vars, validator_vars, peer_vars, binder_vars>>
    \/ AddCopy /\ UNCHANGED <<index_vars, session_vars, child_vars, library_vars, layout_vars, validator_vars, peer_vars, binder_vars>>
    \/ AddMerge /\ UNCHANGED <<index_vars, session_vars, child_vars, library_vars, layout_vars, validator_vars, peer_vars, binder_vars>>
    \/ AddEnsure /\ UNCHANGED <<index_vars, session_vars, child_vars, library_vars, layout_vars, validator_vars, peer_vars, binder_vars>>
    \/ AddInstall /\ UNCHANGED <<index_vars, session_vars, child_vars, library_vars, layout_vars, validator_vars, peer_vars, binder_vars>>

SpecAdd == Init /\ [][NextAdd]_vars

AddOrder == <<"copy", "merge", "ensure", "install">>

\* C24: an add with dependencies performs copy, merge manifest, ensure
\* environment, install in this order; when ensure or install fails the add
\* raises with the merged manifest and the copied source in place; and the
\* same add called again ends with the manifest the first call left.
C24_AddStepsAndRetryConverges ==
    /\ add_run.steps = SubSeq(AddOrder, 1, Len(add_run.steps))
    /\ add_run.pc = "raised"
          => /\ Len(add_run.steps) \in {3, 4}
             /\ Range(add_run.dependencies) \subseteq ManifestLines(AddManifest)
             /\ AddSourceCopied
    /\ (AddFinished /\ add_run.round = 2) => AddManifest = add_run.first

(***************************************************************************)
(* Two add_dependencies calls at the same time on one store                *)
(***************************************************************************)

\* tools.add_dependencies(*packages) is entered by caller w.
WriterCall(w) ==
    /\ writers[w].pc = "idle"
    /\ \E packages \in DependencyLists \ {<<>>} :
          writers' = [writers EXCEPT ![w] = [pc |-> "called", packages |-> packages,
                                              existing |-> {}]]
    /\ UNCHANGED store_vars

\* save_requirements of caller w reads the manifest (read_text).
WriterRead(w) ==
    /\ writers[w].pc = "called"
    /\ writers' = [writers EXCEPT ![w].pc = "read",
                                   ![w].existing = ReadExisting(tools_requirements)]
    /\ UNCHANGED store_vars

\* save_requirements of caller w writes the merged lines back (write_text).
WriterWrite(w) ==
    /\ writers[w].pc = "read"
    /\ tools_requirements' = WriteMerged(writers[w].existing, writers[w].packages)
    /\ writers' = [writers EXCEPT ![w].pc = "written"]
    /\ UNCHANGED <<tool_files, tools_venv, mcp_records, last>>

\* ensure_venv and install_dependencies of caller w; the call returns or raises.
WriterProvision(w) ==
    /\ writers[w].pc = "written"
    /\ \E uv_venv \in UvOutcomes, uv_install \in UvOutcomes :
          LET env == EnsureVenv(tools_venv, uv_venv)
              err == IF env.raised # "none" THEN env.raised
                     ELSE InstallDependencies(writers[w].packages, uv_install)
          IN  /\ tools_venv' = env.venv
              /\ writers' = [writers EXCEPT
                                ![w].pc = IF err = "none" THEN "returned" ELSE "raised"]
    /\ UNCHANGED <<tool_files, tools_requirements, mcp_records, last>>

DoWriterCall == \E w \in Writers : WriterCall(w)
DoWriterRead == \E w \in Writers : WriterRead(w)
DoWriterWrite == \E w \in Writers : WriterWrite(w)
DoWriterProvision == \E w \in Writers : WriterProvision(w)

NextWriters ==
    \/ DoWriterCall /\ UNCHANGED <<skill_vars, index_vars, session_vars, child_vars, library_vars, layout_vars, validator_vars, add_run, peer_vars, binder_vars>>
    \/ DoWriterRead /\ UNCHANGED <<skill_vars, index_vars, session_vars, child_vars, library_vars, layout_vars, validator_vars, add_run, peer_vars, binder_vars>>
    \/ DoWriterWrite /\ UNCHANGED <<skill_vars, index_vars, session_vars, child_vars, library_vars, layout_vars, validator_vars, add_run, peer_vars, binder_vars>>
    \/ DoWriterProvision /\ UNCHANGED <<skill_vars, index_vars, session_vars, child_vars, library_vars, layout_vars, validator_vars, add_run, peer_vars, binder_vars>>

SpecWriters == Init /\ [][NextWriters]_vars

\* C29: when two add_dependencies calls on one config store interleave, the
\* final C/tools/requirements.txt contains every specifier passed to either
\* call.
C29_NoSpecifierLost ==
    (\A w \in Writers : writers[w].pc \in {"written", "returned", "raised"})
        => \A w \in Writers :
              Range(writers[w].packages) \subseteq ManifestLines(tools_requirements)

(***************************************************************************)
(* Two sessions on one config                                              *)
(***************************************************************************)

\* The env a session observes: the dict its env attribute refers to.
EnvOf(s) == env_objects[EnvObjectOf(s)]

\* session s runs exec(command): cwd is rebound on the instance, env is
\* updated in place in the dict the instance refers to.
SessionExec(s) ==
    \E command \in ExecCommands :
        \E outcome \in IF SpawnsChild(command) THEN ChildOutcomes ELSE {"exit0"} :
            LET r == Exec(command, sessions_cwd[s], EnvOf(s), outcome)
            IN  /\ sessions_cwd' = [sessions_cwd EXCEPT ![s] = r.cwd]
                /\ env_objects' = [env_objects EXCEPT ![EnvObjectOf(s)] = r.env]
                /\ sessions_last' =
                      [session |-> s, command |-> command, raised |-> r.raised,
                       return_code |-> IF r.result = None THEN 0
                                       ELSE r.result[1].return_code]

DoSessionExec == \E s \in SessionIds : SessionExec(s)

NextSessions ==
    \/ DoSessionExec /\ UNCHANGED <<store_vars, skill_vars, index_vars, session_vars, child_vars, library_vars, layout_vars, validator_vars, add_run, writers, binder_vars>>

SpecSessions == Init /\ [][NextSessions]_vars

\* C22: two sessions on one config share no cwd and no env: whatever the
\* interleaving of their exec calls, a command of one session (cd and export
\* included) leaves the cwd and the env observed by the other as they were.
C22_SessionsIsolated ==
    [][ \A s \in SessionIds :
          sessions_last'.session = s
            => \A o \in SessionIds \ {s} :
                  /\ sessions_cwd'[o] = sessions_cwd[o]
                  /\ EnvOf(o)' = EnvOf(o) ]_vars

C22_Witness ==
    /\ sessions_last.session = 1
    /\ sessions_last.command \in ExportCommands
    /\ sessions_cwd[1] = Workspace \o << <<"sub">> >>
    /\ EnvOf(1) # <<>>
    /\ sessions_cwd[2] = <<>>
    /\ EnvOf(2) = <<>>

(***************************************************************************)
(* The workspace binder: attach and detach                                 *)
(***************************************************************************)

\* What a child of the protocol directory can be: nothing, the binder's link
\* into the config, a symbolic link to somewhere else, a regular file, a
\* directory.
EntryKinds == {"absent", "link", "foreign_link", "file", "dir"}
SymbolicLinks == {"link", "foreign_link"}
NonLinks == {"file", "dir"}

\* A variant that walks tools, skills, library in order, linking each entry
\* until it meets one that is not a symbolic link.
RECURSIVE AttachEntriesInOrder(_)
AttachEntriesInOrder(entries) ==
    LET todo == { i \in 1..Len(LinkOrder) : entries[LinkOrder[i]] # "link" }
    IN  IF todo = {} THEN [entries |-> entries, raised |-> "none"]
        ELSE LET i == CHOOSE x \in todo : \A y \in todo : x <= y
             IN  IF entries[LinkOrder[i]] \in NonLinks
                 THEN [entries |-> entries, raised |-> "WorkspaceConflict"]
                 ELSE AttachEntriesInOrder([entries EXCEPT ![LinkOrder[i]] = "link"])

\* attach, steps 2 and 3: an absent entry becomes a link, a symbolic link is
\* removed and re-created, an entry that is not a symbolic link aborts with
\* WorkspaceConflict and nothing is changed.
AttachEntries(entries) ==
    IF \E n \in LinkNames : entries[n] \in NonLinks
    THEN [entries |-> entries, raised |-> "WorkspaceConflict"]
    ELSE [entries |-> [n \in LinkNames |-> "link"], raised |-> "none"]

\* attach(workspace, config): create the protocol directory if absent, then
\* the three links.
Attach ==
    LET r == AttachEntries(agent_entries)
    IN  /\ agent_dir' = TRUE
        /\ agent_entries' = r.entries
        /\ attach_last' = [op |-> "attach", raised |-> r.raised,
                           bound |-> IF r.raised = "none" THEN TRUE ELSE attach_last.bound]

\* detach(): remove the three links only; remove the protocol directory when
\* it is then empty.
Detach ==
    /\ attach_last.bound
    /\ LET left == [n \in LinkNames |->
                      IF agent_entries[n] \in SymbolicLinks THEN "absent"
                      ELSE agent_entries[n]]
       IN  /\ agent_entries' = left
           /\ agent_dir' = (\E n \in LinkNames : left[n] # "absent")
    /\ attach_last' = [op |-> "detach", raised |-> "none", bound |-> FALSE]

\* The user of the workspace creates or removes a child of the protocol
\* directory (creating the directory first when it is missing).
UserChange ==
    /\ \E n \in LinkNames, kind \in EntryKinds \ {"link"} :
          /\ (agent_entries[n] = "absent") # (kind = "absent")
          /\ agent_entries' = [agent_entries EXCEPT ![n] = kind]
    /\ agent_dir' = TRUE
    /\ attach_last' = [attach_last EXCEPT !.op = "user", !.raised = "none"]

NextBinder ==
    \/ Attach /\ UNCHANGED <<store_vars, skill_vars, index_vars, session_vars, child_vars, library_vars, layout_vars, validator_vars, add_run, writers, peer_vars>>
    \/ Detach /\ UNCHANGED <<store_vars, skill_vars, index_vars, session_vars, child_vars, library_vars, layout_vars, validator_vars, add_run, writers, peer_vars>>
    \/ UserChange /\ UNCHANGED <<store_vars, skill_vars, index_vars, session_vars, child_vars, library_vars, layout_vars, validator_vars, add_run, writers, peer_vars>>

SpecBinder == Init /\ [][NextBinder]_vars

IsSkillsRun(command) ==
    LET sp == ShlexSplit(command)
    IN  /\ ~StartsWith(Strip(command), <<"tools", " ", "run", " ">>)
        /\ ~sp.error
        /\ Len(sp.parts) >= 3
        /\ sp.parts[1] = <<"skills">> /\ sp.parts[2] = <<"run">>

\* path lies inside the directory dir (or is dir itself).
Inside(path, dir) == Len(path) >= Len(dir) /\ SubSeq(path, 1, Len(dir)) = dir

\* C30: for every `skills run <path> [args]` a child is spawned only if the
\* skill directory, the script and the skill's environment exist, otherwise
\* the result is return_code 1 without a child; and the file executed lies
\* inside C/skills/<skill>/ of the skill whose environment is used, whatever
\* ".." segments the path holds.
C30_SkillScriptInsideOwnSkill ==
    (exec_last.called /\ IsSkillsRun(exec_last.command))
        => /\ exec_last.raised = "none"
           /\ IF exec_last.child = None
              THEN exec_last.result[1].return_code = 1
              ELSE LET child == exec_last.child[1]
                       skill_dir == child.cwd[1]
                   IN  /\ child.kind = "skill"
                       /\ SkillExecutorEnsureVenv(skill_dir) = "none"
                       /\ ConfigRootExists(child.program[1])
                       /\ Inside(child.program[1], skill_dir)

====
